---- MODULE Spec2Model ----
(***************************************************************************)
(* Clock-by-clock model of the 6502 core of fami-rust: the fetch / exec /  *)
(* interrupt state machine of Cpu::step, the interrupt latches and the     *)
(* pending-interrupt slot, the addressing templates and operation cores,   *)
(* and the CPU-side memory controller.                                     *)
(*                                                                         *)
(* Every Rust method `fn f(&mut self, ..)` is an operator f(c, ..) from    *)
(* the Cpu value before the call to the Cpu value after it; the record c   *)
(* has the fields of `struct Cpu`.  A method that also returns a value has *)
(* a companion operator f_ret.                                             *)
(***************************************************************************)
EXTENDS Integers, Sequences, FiniteSets, TLC

VARIABLES cpu, main_pc, bus_ops, core_val

vars == <<cpu, main_pc, bus_ops, core_val>>

----------------------------------------------------------------------------
(* Bounds of the exploration *)

\* step() calls explored after power_on
MaxClock == 32

\* Bus operations explored when the bus is driven on its own
MaxBusOps == 3

\* Steps and register writes of the PPU explored around the end of warm-up
MaxPpuOps == 5

MaxExecSteps == 9

----------------------------------------------------------------------------
(* 8 and 16 bit arithmetic *)

RECURSIVE And8(_, _, _)
And8(a, b, n) ==
    IF n = 0 THEN 0
    ELSE (a % 2) * (b % 2) + 2 * And8(a \div 2, b \div 2, n - 1)

BitAnd(a, b) == And8(a, b, 8)

BitNot(a) == 255 - a

BitOr(a, b) == a + b - BitAnd(a, b)

BitXor(a, b) == a + b - 2 * BitAnd(a, b)

wrapping_add8(a, b) == (a + b) % 256

wrapping_sub8(a, b) == (a - b + 256) % 256

wrapping_add16(a, b) == (a + b) % 65536

make_addr(high, low) == high * 256 + low

----------------------------------------------------------------------------
(* Flags of the status register *)

CARRY == 1
ZERO == 2
INT_DISABLE == 4
DECIMAL == 8
BREAK == 16
RESERVED == 32
OVERFLOW == 64
NEGATIVE == 128

IntTypes == {"None", "Reset", "Nmi", "Irq", "Brk"}

ADDR_STACK_UPPER == 256

ADDR_INT_NMI == 65530
ADDR_INT_RESET == 65532
ADDR_INT_IRQ == 65534

----------------------------------------------------------------------------
(* Cartridge images.  An image gives the bytes of 0x8000-0xFFFF; the bytes *)
(* it does not list are NOP (0xEA).                                        *)

\* Bytes of a code segment placed at base
Segment(base, bytes) == [a \in base .. (base + Len(bytes) - 1) |-> bytes[a - base + 1]]

\* reset -> 0xC000, nmi -> 0xC0EF, irq/brk -> 0xD000
Vectors == Segment(65530, <<239, 192, 0, 192, 0, 208>>)

\* The programs (PRG-ROM images) the CPU is built with, by number
Roms ==
    <<
    \* ROM 1
    \* 0xC000: LDX #$FF; LDA $0201,X (page cross); CLI; SEC;
    \*         BCS +1 (taken, same page); NOP; BCC +16 (not taken); LDA $0200;
    \*         BCS +0; BCS +0 (two taken same-page branches in a row); NOP; BRK
    \* 0xC0EF: SEC; BCS +0x20 (taken, page cross, to 0xC112); 0xC112: CLI
    \* 0xD000: NOP; CLI; NOP
        Segment(49152, <<162, 255, 189, 1, 2, 88, 56, 176, 1, 234, 144, 16,
                         173, 0, 2, 176, 0, 176, 0, 234, 0>>)
        @@ Segment(49391, <<56, 176, 32>>)
        @@ Segment(49426, <<88>>)
        @@ Segment(53248, <<234, 88, 234>>)
        @@ Vectors,

    \* ROM 2
    \* 0xC000: CLI; LDA #$80; SEC; BCS +0 (taken, same page); BRK
    \* 0xC0EF: LDA $0200
    \* 0xD000: NOP; BCC +1; NOP; undefined opcode 0x02
        Segment(49152, <<88, 169, 128, 56, 176, 0, 0>>)
        @@ Segment(49391, <<173, 0, 2>>)
        @@ Segment(53248, <<234, 144, 1, 234, 2>>)
        @@ Vectors,

    \* ROM 3
    \* 0xC000: LDA #$80; PHA; LDA #$00; PLA; PLP (pulls a zero byte); PHP;
    \*         PHA; PLA; CLC
    \* handlers: NOP
        Segment(49152, <<169, 128, 72, 169, 0, 104, 40, 8, 72, 104, 24>>)
        @@ Vectors,

    \* ROM 4
    \* 0xC000: PHP; PLP; PLA; PLA; PLA (S wraps to 0x00); LDA #$5A;
    \*         PHA (S wraps to 0xFF); LDA #$00; PLA (S wraps to 0x00)
    \* handlers: NOP
        Segment(49152, <<8, 40, 104, 104, 104, 169, 90, 72, 169, 0, 104>>)
        @@ Vectors,

    \* ROM 5
    \* 0xC000: LDY #$FF; LDA #$01; STA $10; LDA ($10),Y (page cross);
    \*         LDA $0201,Y (page cross); LDA $10,X; LDX $10,Y; LDA ($10,X)
    \* handlers: NOP
        Segment(49152, <<160, 255, 169, 1, 133, 16, 177, 16, 185, 1, 2,
                         181, 16, 182, 16, 161, 16>>)
        @@ Vectors,

    \* ROM 6
    \* 0xC000: LDA #$40; STA $02FF; LDA #$C0; STA $0200; LDA #$D0; STA $0300;
    \*         JMP ($02FF) (pointer at the end of a page)
    \* 0xC040: JMP ($C050); 0xC050: the bytes 0x00, 0xD0
    \* handlers: NOP
        Segment(49152, <<169, 64, 141, 255, 2, 169, 192, 141, 0, 2,
                         169, 208, 141, 0, 3, 108, 255, 2>>)
        @@ Segment(49216, <<108, 80, 192>>)
        @@ Segment(49232, <<0, 208>>)
        @@ Vectors,

    \* ROM 7
    \* 0xC000: LDA #$5A; LDX #$02; LDY #$03; STA $10; STX $11; STY $12;
    \*         STA $0310; STX $0311; STY $0312; STX $10,Y
    \* handlers: NOP
        Segment(49152, <<169, 90, 162, 2, 160, 3, 133, 16, 134, 17, 132, 18,
                         141, 16, 3, 142, 17, 3, 140, 18, 3, 150, 16>>)
        @@ Vectors,

    \* ROM 8
    \* 0xC000: LDA #$5A; LDX #$02; LDY #$03; STA $10,X; STY $20,X;
    \*         STA $0310,X; STA $0310,Y; STA ($10,X)
    \* handlers: NOP
        Segment(49152, <<169, 90, 162, 2, 160, 3, 149, 16, 148, 32,
                         157, 16, 3, 153, 16, 3, 129, 16>>)
        @@ Vectors,

    \* ROM 9
    \* 0xC000: LDA #$5A; LDY #$FF; STA ($10),Y; STA $0301,Y (page cross);
    \*         ASL A; LSR A; SEC; ROL A; ROR A; LDA #$81; ASL A
    \* handlers: NOP
        Segment(49152, <<169, 90, 160, 255, 145, 16, 153, 1, 3,
                         10, 74, 56, 42, 106, 169, 129, 10>>)
        @@ Vectors,

    \* ROM 10
    \* 0xC000: LDX #$01; ASL $0210,X; INC $10; JSR $C010; JMP $C000
    \* 0xC010: RTS
    \* 0xC0EF: the byte 0x80, which has no entry in the table, then $10 $02; RTI
    \* 0xD000: NOP
        Segment(49152, <<162, 1, 30, 16, 2, 230, 16, 32, 16, 192, 76, 0, 192>>)
        @@ Segment(49168, <<96>>)
        @@ Segment(49391, <<128, 16, 2, 64>>)
        @@ Vectors
    >>

Image(rom, addr) ==
    IF addr \in DOMAIN Roms[rom] THEN Roms[rom][addr]
    ELSE IF addr >= 32768 THEN 234
    ELSE 0

----------------------------------------------------------------------------
(* Picture processing unit (ppu.rs, ppu/ppu_state.rs) and the data bus     *)
(* between CPU and PPU (ppu_databus.rs).  p is the Ppu; the bus latch is   *)
(* kept with the PPU registers.                                            *)

WARM_UP_TIME == 88974

\* enum PpuRegs: the register of an index, "None" where there is none
from_usize(n) ==
    CASE n = 0 -> "Ctrl"
      [] n = 1 -> "Mask"
      [] n = 2 -> "Status"
      [] n = 3 -> "OamAddr"
      [] n = 4 -> "OamData"
      [] n = 5 -> "Scroll"
      [] n = 6 -> "PpuAddr"
      [] n = 7 -> "PpuData"
      [] OTHER -> "None"

RegistersDefault ==
    [ctrl |-> 0, mask |-> 0, status |-> 0, oam_addr |-> 0, oam_data |-> 0,
     scroll |-> 0, addr |-> 0, data |-> 0, oam_dma |-> 0, latch |-> 0]

ppu_new ==
    [state |-> "IDLING", regs |-> RegistersDefault, clock_counter |-> 0,
     reset_requested |-> FALSE]

signal_reset(p) == [p EXCEPT !.reset_requested = TRUE]

ppu_power_on(p) ==
    signal_reset([p EXCEPT !.regs.ctrl = 0, !.regs.mask = 0,
                           !.regs.status = 0, !.regs.oam_addr = 0,
                           !.regs.latch = 0, !.regs.scroll = 0,
                           !.regs.addr = 0, !.regs.data = 0])

\* Variant of step_idling that switches when the counter reaches WARM_UP_TIME
step_idling_at_warm_up_time(p) ==
    IF p.clock_counter >= WARM_UP_TIME THEN [p EXCEPT !.state = "READY"] ELSE p

step_idling(p) ==
    IF p.clock_counter > WARM_UP_TIME THEN [p EXCEPT !.state = "READY"] ELSE p

step_ready(p) == p

\* Ppu::write_idling (the latch is regs.databus there)
write_idling(p, reg_type, data) ==
    LET p1 == [p EXCEPT !.regs.latch = data]
    IN CASE reg_type = "OamAddr" -> [p1 EXCEPT !.regs.oam_addr = data]
         [] reg_type = "OamData" -> [p1 EXCEPT !.regs.oam_data = data]
         [] OTHER -> p1

\* Ppu::write_ready
write_ready(p, reg_type, data) ==
    LET p1 == [p EXCEPT !.regs.latch = data]
    IN CASE reg_type = "Ctrl" -> [p1 EXCEPT !.regs.ctrl = data]
         [] reg_type = "Mask" -> [p1 EXCEPT !.regs.mask = data]
         [] reg_type = "Status" -> p1
         [] reg_type = "OamAddr" -> [p1 EXCEPT !.regs.oam_addr = data]
         [] reg_type = "OamData" -> [p1 EXCEPT !.regs.oam_data = data]
         [] reg_type = "Scroll" -> [p1 EXCEPT !.regs.scroll = data]
         [] reg_type = "PpuAddr" -> [p1 EXCEPT !.regs.addr = data]
         [] reg_type = "PpuData" -> [p1 EXCEPT !.regs.data = data]

\* PpuDataBus::write for Ppu: (self.state.write)(self, reg_type, data)
ppu_write(p, reg_type, data) ==
    IF p.state = "IDLING" THEN write_idling(p, reg_type, data)
    ELSE write_ready(p, reg_type, data)

ppu_step(p) ==
    LET p1 == [p EXCEPT !.clock_counter = @ + 1]
    IN IF p1.state = "IDLING" THEN step_idling(p1) ELSE step_ready(p1)

is_ready(p) == p.state = "READY"

\* Registers::read_status
read_status(p) == 0

\* Ppu::read_idling: the byte returned, which is also the new latch
read_idling_ret(p, reg_type) ==
    CASE reg_type = "Status" -> p.regs.status
      [] reg_type = "OamData" -> p.regs.oam_data
      [] reg_type = "PpuData" -> p.regs.data
      [] OTHER -> p.regs.latch

\* Ppu::read_idling: the Ppu after the read
read_idling(p, reg_type) ==
    [p EXCEPT !.regs.latch = read_idling_ret(p, reg_type)]

\* Ppu::read_ready: the byte returned, which is also the new latch
read_ready_ret(p, reg_type) ==
    CASE reg_type = "Status" -> read_status(p)
      [] reg_type = "OamData" -> p.regs.oam_data
      [] reg_type = "PpuData" -> p.regs.data
      [] OTHER -> p.regs.latch

\* Ppu::read_ready: the Ppu after the read
read_ready(p, reg_type) ==
    [p EXCEPT !.regs.latch = read_ready_ret(p, reg_type)]

\* PpuDataBus::read for Ppu: (self.state.read)(self, reg_type)
ppu_read(p, reg_type) ==
    IF p.state = "IDLING" THEN read_idling(p, reg_type)
    ELSE read_ready(p, reg_type)

\* DataBus::write
databus_write(p, reg_type, data) ==
    LET p1 == [p EXCEPT !.regs.latch = data]
    IN CASE reg_type = "Ctrl" ->
                IF is_ready(p1) THEN [p1 EXCEPT !.regs.ctrl = data] ELSE p1
         [] reg_type = "Mask" ->
                IF is_ready(p1) THEN [p1 EXCEPT !.regs.mask = data] ELSE p1
         [] reg_type = "Status" -> p1
         [] reg_type = "OamAddr" -> [p1 EXCEPT !.regs.oam_addr = data]
         [] reg_type = "OamData" -> [p1 EXCEPT !.regs.oam_data = data]
         [] reg_type = "Scroll" ->
                IF is_ready(p1) THEN [p1 EXCEPT !.regs.scroll = data] ELSE p1
         [] reg_type = "PpuAddr" ->
                IF is_ready(p1) THEN [p1 EXCEPT !.regs.addr = data] ELSE p1
         [] reg_type = "PpuData" -> [p1 EXCEPT !.regs.data = data]

write_to_oamdma(p, data) == [p EXCEPT !.regs.oam_dma = data]

\* DataBus::read: the byte returned
databus_read_ret(p, reg_type) ==
    CASE reg_type = "Status" -> p.regs.status
      [] reg_type = "OamData" -> p.regs.oam_data
      [] reg_type = "PpuData" -> p.regs.data
      [] OTHER -> p.regs.latch

\* DataBus::read: the Ppu after the read
databus_read(p, reg_type) ==
    [p EXCEPT !.regs.latch = databus_read_ret(p, reg_type)]

read_from_oamdma(p) == p.regs.oam_dma

----------------------------------------------------------------------------
(* Memory controller (mem.rs).  MemCon::ram is the initial image overlaid   *)
(* with c.mem: c.mem holds the bytes stored since construction, every      *)
(* address outside its domain holds the byte of the image.                 *)

\* A byte of the 64 KiB array MemCon::ram
ram(c, addr) ==
    IF addr \in DOMAIN c.mem THEN c.mem[addr] ELSE Image(c.rom, addr)

raw_store(m, addr, data) == (addr :> data) @@ m

\* The window of the PPU registers and the OAM-DMA register
InPpuWindow(addr) == (addr >= 8192 /\ addr <= 16383) \/ addr = 16404

\* addr & 0x0111, the mask being the hexadecimal number of the source
ppu_offset(addr) ==
    (addr % 2) + 16 * ((addr \div 16) % 2) + 256 * ((addr \div 256) % 2)

\* The stores of the mirror loop: ram[i + offset] for i from 0x2008 to
\* 0x3FF7 by steps of 8
mirror_store(m, offset, data) ==
    [a \in {8200 + 8 * k + offset : k \in 0 .. 1021} |-> data] @@ m

write_ppu_register(c, addr, data) ==
    IF addr = 16404
    THEN [c EXCEPT !.ppu = write_to_oamdma(@, data)]
    ELSE LET offset == ppu_offset(addr)
             reg_type == from_usize(ppu_offset(offset))
         IN IF reg_type = "None" THEN [c EXCEPT !.panicked = "unwrap_none"]
            ELSE [c EXCEPT !.ppu = databus_write(@, reg_type, data),
                           !.mem = mirror_store(@, offset, data)]

\* Byte returned by read_ppu_register
read_ppu_register_ret(c, addr) ==
    IF addr = 16404 THEN read_from_oamdma(c.ppu)
    ELSE databus_read_ret(c.ppu, from_usize(ppu_offset(ppu_offset(addr))))

\* Cpu after read_ppu_register
read_ppu_register(c, addr) ==
    IF addr = 16404 THEN c
    ELSE LET reg_type == from_usize(ppu_offset(ppu_offset(addr)))
         IN IF reg_type = "None" THEN [c EXCEPT !.panicked = "unwrap_none"]
            ELSE [c EXCEPT !.ppu = databus_read(@, reg_type)]

\* MemCon::read: the byte returned
mem_read(c, addr) ==
    IF InPpuWindow(addr) THEN read_ppu_register_ret(c, addr)
    ELSE ram(c, addr)

\* MemCon::read: the Cpu after the read
mem_read_effect(c, addr) ==
    IF InPpuWindow(addr) THEN read_ppu_register(c, addr) ELSE c

\* The RAM part of write_to_dev
write_to_dev(m, addr, data) ==
    IF addr <= 8191
    THEN raw_store(raw_store(raw_store(raw_store(m, addr, data),
                2048 + addr, data), 4096 + addr, data), 6144 + addr, data)
    ELSE m

mem_write(c, addr, data) ==
    IF addr <= 8191
    THEN [c EXCEPT !.mem = write_to_dev(c.mem, addr, data)]
    ELSE IF InPpuWindow(addr) THEN write_ppu_register(c, addr, data)
    ELSE [c EXCEPT !.mem = raw_store(c.mem, addr, data)]

----------------------------------------------------------------------------
(* Registers (cpu.rs, impl Registers) *)

int_disabled(c) == BitAnd(c.regs.p, INT_DISABLE) # 0

flags_on(c, flags) == [c EXCEPT !.regs.p = BitOr(@, flags)]

flags_off(c, flags) == [c EXCEPT !.regs.p = BitAnd(@, BitNot(flags))]

change_negative_by_value(p, val) ==
    BitOr(BitAnd(p, BitNot(NEGATIVE)), BitAnd(val, NEGATIVE))

change_zero_by_value(p, val) ==
    BitOr(BitAnd(p, BitNot(ZERO)), IF val = 0 THEN 2 ELSE 0)

a_set(c, val) ==
    [c EXCEPT !.regs.a = val,
              !.regs.p = change_zero_by_value(change_negative_by_value(@, val), val)]

x_set(c, val) ==
    [c EXCEPT !.regs.x = val,
              !.regs.p = change_zero_by_value(change_negative_by_value(@, val), val)]

y_set(c, val) ==
    [c EXCEPT !.regs.y = val,
              !.regs.p = change_zero_by_value(change_negative_by_value(@, val), val)]

\* val1 + val2 + carry in sixteen bits: <<low byte, bit 8>>
add_with_carry(val1, val2, carry) ==
    <<(val1 + val2 + (IF carry THEN 1 ELSE 0)) % 256,
      ((val1 + val2 + (IF carry THEN 1 ELSE 0)) \div 256) % 2 = 1>>

\* Flags of a_add: C from the carry out, V from the operands and the result,
\* N and Z from the result
add_flags(p, a, val, result, carry) ==
    change_zero_by_value(
        change_negative_by_value(
            BitOr(BitAnd(BitOr(BitAnd(p, BitNot(CARRY)),
                               IF carry THEN 1 ELSE 0),
                         BitNot(OVERFLOW)),
                  IF BitAnd(BitAnd(BitXor(a, result), BitXor(val, result)),
                            128) # 0
                  THEN 64 ELSE 0),
            result),
        result)

\* Variant of a_add that leaves the incoming Carry out of the sum
a_add_without_carry_in(c, val) ==
    [c EXCEPT !.regs.p = add_flags(@, c.regs.a, val,
                             add_with_carry(c.regs.a, val, FALSE)[1],
                             add_with_carry(c.regs.a, val, FALSE)[2]),
              !.regs.a = add_with_carry(c.regs.a, val, FALSE)[1]]

a_add(c, val) ==
    [c EXCEPT !.regs.p = add_flags(@, c.regs.a, val,
                             add_with_carry(c.regs.a, val,
                                 BitAnd(c.regs.p, CARRY) # 0)[1],
                             add_with_carry(c.regs.a, val,
                                 BitAnd(c.regs.p, CARRY) # 0)[2]),
              !.regs.a = add_with_carry(c.regs.a, val,
                             BitAnd(c.regs.p, CARRY) # 0)[1]]

a_sub(c, val) == a_add(c, BitNot(val))

\* cmp: val1 + !val2 + 1; Carry from bit 8, N and Z by the low byte
cmp(c, val1, val2) ==
    LET r == add_with_carry(val1, BitNot(val2), TRUE)
    IN [c EXCEPT !.regs.p =
           change_zero_by_value(
               change_negative_by_value(
                   BitOr(BitAnd(@, BitNot(CARRY)), IF r[2] THEN 1 ELSE 0),
                   r[1]),
               r[1])]

----------------------------------------------------------------------------
(* Transient state (cpu_state.rs TmpState, executer.rs Executer) *)

\* min_clock of IS_TEMP_DUMMY, the template of an executer that runs nothing
DummyClock == 255

ExecuterDefault ==
    [fn_exec |-> "fn_exec_dummy", fn_core |-> "DUMMY", dst |-> "Register",
     last_cycle |-> DummyClock]

\* TmpState::default(): fn_exec is the Option<PtrFnExec> that exec_step
\* unwraps, "None" until a decode stores a template in it
TmpStateDefault ==
    [counter |-> 0, op_1 |-> 0, op_2 |-> 0, int |-> "None",
     fn_exec |-> "None", executer |-> ExecuterDefault]

InterruptDefault == [kind |-> "None", is_force_delayed |-> FALSE]

----------------------------------------------------------------------------
(* Instruction table (instruction.rs INSTRUCTION_SET, is_template.rs,      *)
(* is_core.rs).  An entry is <<template, core>>; opcodes without an entry  *)
(* are undefined.                                                          *)

Templates ==
    [exec_indexed_indirect_x |-> [min_clock |-> 6, addr_mode |-> "IndexedIndirect_X"],
     exec_zeropage |-> [min_clock |-> 3, addr_mode |-> "ZeroPage"],
     exec_immediate |-> [min_clock |-> 2, addr_mode |-> "Immediate"],
     exec_absolute |-> [min_clock |-> 4, addr_mode |-> "Absolute"],
     exec_indirect_indexed_y |-> [min_clock |-> 5, addr_mode |-> "IndirectIndexed_Y"],
     exec_indexed_zeropage_y |-> [min_clock |-> 4, addr_mode |-> "IndexedZeroPage_X"],
     exec_indexed_zeropage_x |-> [min_clock |-> 4, addr_mode |-> "IndexedZeroPage_X"],
     exec_indexed_absolute_y |-> [min_clock |-> 4, addr_mode |-> "IndexedAbsolute_Y"],
     exec_indexed_absolute_x |-> [min_clock |-> 4, addr_mode |-> "IndexedAbsolute_X"],
     exec_zeropage_rmw |-> [min_clock |-> 5, addr_mode |-> "ZeroPage"],
     exec_accumulator |-> [min_clock |-> 2, addr_mode |-> "Accumulator"],
     exec_absolute_rmw |-> [min_clock |-> 6, addr_mode |-> "Absolute"],
     exec_indexed_zeropage_x_rmw |-> [min_clock |-> 6, addr_mode |-> "IndexedZeroPage_X"],
     exec_indexed_absolute_x_rmw |-> [min_clock |-> 7, addr_mode |-> "IndexedAbsolute_X"],
     exec_indirect_jmp |-> [min_clock |-> 5, addr_mode |-> "Indirect"],
     exec_absolute_jmp |-> [min_clock |-> 3, addr_mode |-> "Absolute"],
     exec_relative |-> [min_clock |-> 3, addr_mode |-> "Relative"],
     exec_jsr |-> [min_clock |-> 6, addr_mode |-> "Absolute"],
     exec_rti |-> [min_clock |-> 6, addr_mode |-> "Implied"],
     exec_rts |-> [min_clock |-> 6, addr_mode |-> "Implied"],
     exec_push_stack |-> [min_clock |-> 3, addr_mode |-> "Implied"],
     exec_pull_stack |-> [min_clock |-> 4, addr_mode |-> "Implied"],
     exec_implied |-> [min_clock |-> 2, addr_mode |-> "Implied"]]

Cores ==
    [ORA |-> [dst |-> "Register"],
     AND |-> [dst |-> "Register"],
     EOR |-> [dst |-> "Register"],
     ADC |-> [dst |-> "Register"],
     STA |-> [dst |-> "Memory"],
     LDA |-> [dst |-> "Register"],
     CMP |-> [dst |-> "Register"],
     SBC |-> [dst |-> "Register"],
     STX |-> [dst |-> "Memory"],
     LDX |-> [dst |-> "Register"],
     ASL |-> [dst |-> "Register"],
     ROL |-> [dst |-> "Register"],
     LSR |-> [dst |-> "Register"],
     ROR |-> [dst |-> "Register"],
     DEC |-> [dst |-> "Register"],
     INC |-> [dst |-> "Memory"],
     BIT |-> [dst |-> "Register"],
     JMP |-> [dst |-> "Register"],
     STY |-> [dst |-> "Register"],
     LDY |-> [dst |-> "Register"],
     CPY |-> [dst |-> "Register"],
     CPX |-> [dst |-> "Register"],
     BPL |-> [dst |-> "Register"],
     BMI |-> [dst |-> "Register"],
     BVC |-> [dst |-> "Register"],
     BVS |-> [dst |-> "Register"],
     BCC |-> [dst |-> "Register"],
     BCS |-> [dst |-> "Register"],
     BNE |-> [dst |-> "Register"],
     BEQ |-> [dst |-> "Register"],
     JSR |-> [dst |-> "Register"],
     RTI |-> [dst |-> "Register"],
     RTS |-> [dst |-> "Register"],
     PHP |-> [dst |-> "Register"],
     PLP |-> [dst |-> "Register"],
     PHA |-> [dst |-> "Register"],
     PLA |-> [dst |-> "Register"],
     DEY |-> [dst |-> "Register"],
     TAY |-> [dst |-> "Register"],
     INX |-> [dst |-> "Register"],
     INY |-> [dst |-> "Register"],
     CLC |-> [dst |-> "Register"],
     SEC |-> [dst |-> "Register"],
     CLI |-> [dst |-> "Register"],
     SEI |-> [dst |-> "Register"],
     TYA |-> [dst |-> "Register"],
     CLV |-> [dst |-> "Register"],
     CLD |-> [dst |-> "Register"],
     SED |-> [dst |-> "Register"],
     TXA |-> [dst |-> "Register"],
     TXS |-> [dst |-> "Register"],
     TAX |-> [dst |-> "Register"],
     TSX |-> [dst |-> "Register"],
     DEX |-> [dst |-> "Register"],
     NOP |-> [dst |-> "Register"]]

INSTRUCTION_SET ==
    (1 :> <<"exec_indexed_indirect_x", "ORA">>)
    @@ (5 :> <<"exec_zeropage", "ORA">>)
    @@ (6 :> <<"exec_zeropage_rmw", "ASL">>)
    @@ (8 :> <<"exec_push_stack", "PHP">>)
    @@ (9 :> <<"exec_immediate", "ORA">>)
    @@ (10 :> <<"exec_accumulator", "ASL">>)
    @@ (13 :> <<"exec_absolute", "ORA">>)
    @@ (14 :> <<"exec_absolute_rmw", "ASL">>)
    @@ (16 :> <<"exec_relative", "BPL">>)
    @@ (17 :> <<"exec_indirect_indexed_y", "ORA">>)
    @@ (21 :> <<"exec_indexed_zeropage_x", "ORA">>)
    @@ (22 :> <<"exec_indexed_zeropage_x_rmw", "ASL">>)
    @@ (24 :> <<"exec_implied", "CLC">>)
    @@ (25 :> <<"exec_indexed_absolute_y", "ORA">>)
    @@ (29 :> <<"exec_indexed_absolute_x", "ORA">>)
    @@ (30 :> <<"exec_indexed_absolute_x_rmw", "ASL">>)
    @@ (32 :> <<"exec_jsr", "JSR">>)
    @@ (33 :> <<"exec_indexed_indirect_x", "AND">>)
    @@ (36 :> <<"exec_zeropage", "BIT">>)
    @@ (37 :> <<"exec_zeropage", "AND">>)
    @@ (38 :> <<"exec_zeropage_rmw", "ROL">>)
    @@ (40 :> <<"exec_pull_stack", "PLP">>)
    @@ (41 :> <<"exec_immediate", "AND">>)
    @@ (42 :> <<"exec_accumulator", "ROL">>)
    @@ (44 :> <<"exec_absolute", "BIT">>)
    @@ (45 :> <<"exec_absolute", "AND">>)
    @@ (46 :> <<"exec_absolute_rmw", "ROL">>)
    @@ (48 :> <<"exec_relative", "BMI">>)
    @@ (49 :> <<"exec_indirect_indexed_y", "AND">>)
    @@ (53 :> <<"exec_indexed_zeropage_x", "AND">>)
    @@ (54 :> <<"exec_indexed_zeropage_x_rmw", "ROL">>)
    @@ (56 :> <<"exec_implied", "SEC">>)
    @@ (57 :> <<"exec_indexed_absolute_y", "AND">>)
    @@ (61 :> <<"exec_indexed_absolute_x", "AND">>)
    @@ (62 :> <<"exec_indexed_absolute_x_rmw", "ROL">>)
    @@ (64 :> <<"exec_rti", "RTI">>)
    @@ (65 :> <<"exec_indexed_indirect_x", "EOR">>)
    @@ (69 :> <<"exec_zeropage", "EOR">>)
    @@ (70 :> <<"exec_zeropage_rmw", "LSR">>)
    @@ (72 :> <<"exec_push_stack", "PHA">>)
    @@ (73 :> <<"exec_immediate", "EOR">>)
    @@ (74 :> <<"exec_accumulator", "LSR">>)
    @@ (76 :> <<"exec_absolute_jmp", "JMP">>)
    @@ (77 :> <<"exec_absolute", "EOR">>)
    @@ (78 :> <<"exec_absolute_rmw", "LSR">>)
    @@ (80 :> <<"exec_relative", "BVC">>)
    @@ (81 :> <<"exec_indirect_indexed_y", "EOR">>)
    @@ (85 :> <<"exec_indexed_zeropage_x", "EOR">>)
    @@ (86 :> <<"exec_indexed_zeropage_x_rmw", "LSR">>)
    @@ (88 :> <<"exec_implied", "CLI">>)
    @@ (89 :> <<"exec_indexed_absolute_y", "EOR">>)
    @@ (93 :> <<"exec_indexed_absolute_x", "EOR">>)
    @@ (94 :> <<"exec_indexed_absolute_x_rmw", "LSR">>)
    @@ (96 :> <<"exec_rts", "RTS">>)
    @@ (97 :> <<"exec_indexed_indirect_x", "ADC">>)
    @@ (101 :> <<"exec_zeropage", "ADC">>)
    @@ (102 :> <<"exec_zeropage_rmw", "ROR">>)
    @@ (104 :> <<"exec_pull_stack", "PLA">>)
    @@ (105 :> <<"exec_immediate", "ADC">>)
    @@ (106 :> <<"exec_accumulator", "ROR">>)
    @@ (108 :> <<"exec_indirect_jmp", "JMP">>)
    @@ (109 :> <<"exec_absolute", "ADC">>)
    @@ (110 :> <<"exec_absolute_rmw", "ROR">>)
    @@ (112 :> <<"exec_relative", "BVS">>)
    @@ (113 :> <<"exec_indirect_indexed_y", "ADC">>)
    @@ (117 :> <<"exec_indexed_zeropage_x", "ADC">>)
    @@ (118 :> <<"exec_indexed_zeropage_x_rmw", "ROR">>)
    @@ (120 :> <<"exec_implied", "SEI">>)
    @@ (121 :> <<"exec_indexed_absolute_y", "ADC">>)
    @@ (125 :> <<"exec_indexed_absolute_x", "ADC">>)
    @@ (126 :> <<"exec_indexed_absolute_x_rmw", "ROR">>)
    @@ (129 :> <<"exec_indexed_indirect_x", "STA">>)
    @@ (132 :> <<"exec_zeropage", "STY">>)
    @@ (133 :> <<"exec_zeropage", "STA">>)
    @@ (134 :> <<"exec_zeropage", "STX">>)
    @@ (136 :> <<"exec_implied", "DEY">>)
    @@ (138 :> <<"exec_implied", "TXA">>)
    @@ (140 :> <<"exec_absolute", "STY">>)
    @@ (141 :> <<"exec_absolute", "STA">>)
    @@ (142 :> <<"exec_absolute", "STX">>)
    @@ (144 :> <<"exec_relative", "BCC">>)
    @@ (145 :> <<"exec_indirect_indexed_y", "STA">>)
    @@ (148 :> <<"exec_indexed_zeropage_x", "STY">>)
    @@ (149 :> <<"exec_indexed_zeropage_x", "STA">>)
    @@ (150 :> <<"exec_indexed_zeropage_y", "STX">>)
    @@ (152 :> <<"exec_implied", "TYA">>)
    @@ (153 :> <<"exec_indexed_absolute_y", "STA">>)
    @@ (154 :> <<"exec_implied", "TXS">>)
    @@ (157 :> <<"exec_indexed_absolute_x", "STA">>)
    @@ (160 :> <<"exec_immediate", "LDY">>)
    @@ (161 :> <<"exec_indexed_indirect_x", "LDA">>)
    @@ (162 :> <<"exec_immediate", "LDX">>)
    @@ (164 :> <<"exec_zeropage", "LDY">>)
    @@ (165 :> <<"exec_zeropage", "LDA">>)
    @@ (166 :> <<"exec_zeropage", "LDX">>)
    @@ (168 :> <<"exec_implied", "TAY">>)
    @@ (169 :> <<"exec_immediate", "LDA">>)
    @@ (170 :> <<"exec_implied", "TAX">>)
    @@ (172 :> <<"exec_absolute", "LDY">>)
    @@ (173 :> <<"exec_absolute", "LDA">>)
    @@ (174 :> <<"exec_absolute", "LDX">>)
    @@ (176 :> <<"exec_relative", "BCS">>)
    @@ (177 :> <<"exec_indirect_indexed_y", "LDA">>)
    @@ (180 :> <<"exec_indexed_zeropage_x", "LDY">>)
    @@ (181 :> <<"exec_indexed_zeropage_x", "LDA">>)
    @@ (182 :> <<"exec_indexed_zeropage_y", "LDX">>)
    @@ (184 :> <<"exec_implied", "CLV">>)
    @@ (185 :> <<"exec_indexed_absolute_y", "LDA">>)
    @@ (186 :> <<"exec_implied", "TSX">>)
    @@ (188 :> <<"exec_indexed_absolute_x", "LDY">>)
    @@ (189 :> <<"exec_indexed_absolute_x", "LDA">>)
    @@ (190 :> <<"exec_indexed_absolute_y", "LDX">>)
    @@ (192 :> <<"exec_immediate", "CPY">>)
    @@ (193 :> <<"exec_indexed_indirect_x", "CMP">>)
    @@ (196 :> <<"exec_zeropage", "CPY">>)
    @@ (197 :> <<"exec_zeropage", "CMP">>)
    @@ (198 :> <<"exec_zeropage_rmw", "DEC">>)
    @@ (200 :> <<"exec_implied", "INY">>)
    @@ (201 :> <<"exec_immediate", "CMP">>)
    @@ (202 :> <<"exec_implied", "DEX">>)
    @@ (204 :> <<"exec_absolute", "CPY">>)
    @@ (205 :> <<"exec_absolute", "CMP">>)
    @@ (206 :> <<"exec_absolute_rmw", "DEC">>)
    @@ (208 :> <<"exec_relative", "BNE">>)
    @@ (209 :> <<"exec_indirect_indexed_y", "CMP">>)
    @@ (213 :> <<"exec_indexed_zeropage_x", "CMP">>)
    @@ (214 :> <<"exec_indexed_zeropage_x_rmw", "DEC">>)
    @@ (216 :> <<"exec_implied", "CLD">>)
    @@ (217 :> <<"exec_indexed_absolute_y", "CMP">>)
    @@ (221 :> <<"exec_indexed_absolute_x", "CMP">>)
    @@ (222 :> <<"exec_indexed_absolute_x_rmw", "DEC">>)
    @@ (224 :> <<"exec_immediate", "CPX">>)
    @@ (225 :> <<"exec_indexed_indirect_x", "SBC">>)
    @@ (228 :> <<"exec_zeropage", "CPX">>)
    @@ (229 :> <<"exec_zeropage", "SBC">>)
    @@ (230 :> <<"exec_zeropage_rmw", "INC">>)
    @@ (232 :> <<"exec_implied", "INX">>)
    @@ (233 :> <<"exec_immediate", "SBC">>)
    @@ (234 :> <<"exec_implied", "NOP">>)
    @@ (236 :> <<"exec_absolute", "CPX">>)
    @@ (237 :> <<"exec_absolute", "SBC">>)
    @@ (238 :> <<"exec_absolute_rmw", "INC">>)
    @@ (240 :> <<"exec_relative", "BEQ">>)
    @@ (241 :> <<"exec_indirect_indexed_y", "SBC">>)
    @@ (245 :> <<"exec_indexed_zeropage_x", "SBC">>)
    @@ (246 :> <<"exec_indexed_zeropage_x_rmw", "INC">>)
    @@ (248 :> <<"exec_implied", "SED">>)
    @@ (249 :> <<"exec_indexed_absolute_y", "SBC">>)
    @@ (253 :> <<"exec_indexed_absolute_x", "SBC">>)
    @@ (254 :> <<"exec_indexed_absolute_x_rmw", "INC">>)

make_executer(template, core) ==
    [fn_exec |-> template, fn_core |-> core, dst |-> Cores[core].dst,
     last_cycle |-> Templates[template].min_clock]

----------------------------------------------------------------------------
(* Bit-pattern decoder (cpu/decoder.rs).  An Option<Executer> is           *)
(* NoExecuter or the pair <<template, core>> handed to make_executer; a    *)
(* missing template is "None".                                             *)

\* Option<Executer>::None
NoExecuter == <<>>

\* panic_invalid_op(opcode)
InvalidOp == <<"panic">>

decode_addr_group1_01(bbb) ==
    CASE bbb = 0 -> "exec_indexed_indirect_x"
      [] bbb = 1 -> "exec_zeropage"
      [] bbb = 2 -> "exec_immediate"
      [] bbb = 3 -> "exec_absolute"
      [] bbb = 4 -> "exec_indirect_indexed_y"
      [] bbb = 5 -> "exec_indexed_zeropage_x"
      [] bbb = 6 -> "exec_indexed_absolute_y"
      [] bbb = 7 -> "exec_indexed_absolute_x"
      [] OTHER -> "None"

decode_addr_group1_10_rwm(bbb) ==
    CASE bbb = 1 -> "exec_zeropage_rmw"
      [] bbb = 2 -> "exec_accumulator"
      [] bbb = 3 -> "exec_absolute_rmw"
      [] bbb = 5 -> "exec_indexed_zeropage_x_rmw"
      [] bbb = 7 -> "exec_indexed_absolute_x_rmw"
      [] OTHER -> "None"

decode_addr_group1_10_stx(bbb) ==
    CASE bbb = 1 -> "exec_zeropage"
      [] bbb = 3 -> "exec_absolute"
      [] bbb = 5 -> "exec_indexed_zeropage_y"
      [] OTHER -> "None"

decode_addr_group1_10_ldx(bbb) ==
    CASE bbb = 0 -> "exec_immediate"
      [] bbb = 1 -> "exec_zeropage"
      [] bbb = 3 -> "exec_absolute"
      [] bbb = 5 -> "exec_indexed_zeropage_y"
      [] bbb = 7 -> "exec_indexed_absolute_y"
      [] OTHER -> "None"

decode_addr_group1_00(bbb) ==
    CASE bbb = 0 -> "exec_absolute"
      [] bbb = 1 -> "exec_zeropage"
      [] bbb = 3 -> "exec_absolute"
      [] bbb = 5 -> "exec_indexed_indirect_x"
      [] bbb = 7 -> "exec_indexed_absolute_x"
      [] OTHER -> "None"

\* cc = 01: ORA AND EOR ADC STA LDA CMP SBC
decode_group1_01(aaa, template) ==
    IF template = "None" THEN NoExecuter
    ELSE CASE aaa = 0 -> <<template, "ORA">>
           [] aaa = 1 -> <<template, "AND">>
           [] aaa = 2 -> <<template, "EOR">>
           [] aaa = 3 -> <<template, "ADC">>
           [] aaa = 4 -> IF Templates[template].addr_mode = "Immediate"
                         THEN NoExecuter ELSE <<template, "STA">>
           [] aaa = 5 -> <<template, "LDA">>
           [] aaa = 6 -> <<template, "CMP">>
           [] aaa = 7 -> <<template, "SBC">>
           [] OTHER -> NoExecuter

\* cc = 10, aaa neither STX nor LDX: ASL ROL LSR ROR DEC INC
decode_group1_10_rwm(aaa, template) ==
    IF template = "None" THEN NoExecuter
    ELSE CASE aaa = 0 -> <<template, "ASL">>
           [] aaa = 1 -> <<template, "ROL">>
           [] aaa = 2 -> <<template, "LSR">>
           [] aaa = 3 -> <<template, "ROR">>
           [] aaa = 6 -> IF Templates[template].addr_mode = "Accumulator"
                         THEN NoExecuter ELSE <<template, "DEC">>
           [] aaa = 7 -> IF Templates[template].addr_mode = "Accumulator"
                         THEN NoExecuter ELSE <<template, "INC">>
           [] OTHER -> NoExecuter

\* cc = 00: BIT JMP JMP(abs) STY LDY CPY CPX
decode_group1_00(aaa, template) ==
    IF template = "None" THEN NoExecuter
    ELSE CASE aaa = 1 ->
                IF Templates[template].addr_mode \notin {"ZeroPage", "Absolute"}
                THEN NoExecuter ELSE <<template, "BIT">>
           [] aaa = 2 -> <<"exec_indirect_jmp", "JMP">>
           [] aaa = 3 -> <<"exec_absolute_jmp", "JMP">>
           [] aaa = 4 ->
                IF Templates[template].addr_mode
                       \in {"ZeroPage", "IndexedZeroPage_X", "Absolute"}
                THEN <<template, "STY">> ELSE NoExecuter
           [] aaa = 5 -> <<template, "LDY">>
           [] aaa = 6 ->
                IF Templates[template].addr_mode
                       \in {"Immediate", "ZeroPage", "Absolute"}
                THEN <<template, "CPY">> ELSE NoExecuter
           [] aaa = 7 ->
                IF Templates[template].addr_mode
                       \in {"Immediate", "ZeroPage", "Absolute"}
                THEN <<template, "CPX">> ELSE NoExecuter
           [] OTHER -> NoExecuter

\* aaabbbcc: aaa and cc select the operation, bbb the addressing mode
decode_group1(opcode) ==
    LET aaa == opcode \div 32
        bbb == (opcode \div 4) % 8
        cc == opcode % 4
    IN IF cc = 1 THEN decode_group1_01(aaa, decode_addr_group1_01(bbb))
       ELSE IF cc = 2
       THEN IF aaa = 4
            THEN IF decode_addr_group1_10_stx(bbb) = "None" THEN NoExecuter
                 ELSE <<decode_addr_group1_10_stx(bbb), "STX">>
            ELSE IF aaa = 5
            THEN IF decode_addr_group1_10_ldx(bbb) = "None" THEN NoExecuter
                 ELSE <<decode_addr_group1_10_ldx(bbb), "LDX">>
            ELSE decode_group1_10_rwm(aaa, decode_addr_group1_10_rwm(bbb))
       ELSE IF cc = 0 THEN decode_group1_00(aaa, decode_addr_group1_00(bbb))
       ELSE InvalidOp

\* xxy10000: the conditional branches
decode_group2(opcode) ==
    LET op == opcode \div 64
        val == (opcode \div 32) % 2
        tail == opcode % 32
    IN IF tail # 16 THEN NoExecuter
       ELSE CASE op = 0 -> <<"exec_relative", IF val = 0 THEN "BPL" ELSE "BMI">>
              [] op = 1 -> <<"exec_relative", IF val = 0 THEN "BVC" ELSE "BVS">>
              [] op = 2 -> <<"exec_relative", IF val = 0 THEN "BCC" ELSE "BCS">>
              [] op = 3 -> <<"exec_relative", IF val = 0 THEN "BNE" ELSE "BEQ">>
              [] OTHER -> NoExecuter

\* The remaining one-byte instructions, matched by the whole opcode
decode_group3(opcode) ==
    CASE opcode = 32 -> <<"exec_jsr", "JSR">>
      [] opcode = 64 -> <<"exec_rti", "RTI">>
      [] opcode = 96 -> <<"exec_rts", "RTS">>
      [] opcode = 8 -> <<"exec_push_stack", "PHP">>
      [] opcode = 40 -> <<"exec_pull_stack", "PLP">>
      [] opcode = 72 -> <<"exec_push_stack", "PHA">>
      [] opcode = 104 -> <<"exec_pull_stack", "PLA">>
      [] opcode = 136 -> <<"exec_implied", "DEY">>
      [] opcode = 168 -> <<"exec_implied", "TAY">>
      [] opcode = 200 -> <<"exec_implied", "INX">>
      [] opcode = 232 -> <<"exec_implied", "INY">>
      [] opcode = 24 -> <<"exec_implied", "CLC">>
      [] opcode = 56 -> <<"exec_implied", "SEC">>
      [] opcode = 88 -> <<"exec_implied", "CLI">>
      [] opcode = 120 -> <<"exec_implied", "SEI">>
      [] opcode = 152 -> <<"exec_implied", "TYA">>
      [] opcode = 184 -> <<"exec_implied", "CLV">>
      [] opcode = 216 -> <<"exec_implied", "CLD">>
      [] opcode = 248 -> <<"exec_implied", "SED">>
      [] opcode = 138 -> <<"exec_implied", "TXA">>
      [] opcode = 154 -> <<"exec_implied", "TXS">>
      [] opcode = 170 -> <<"exec_implied", "TAX">>
      [] opcode = 186 -> <<"exec_implied", "TSX">>
      [] opcode = 202 -> <<"exec_implied", "DEX">>
      [] opcode = 234 -> <<"exec_implied", "NOP">>
      [] OTHER -> NoExecuter

\* decoder::decode: the first group that answers, a panic when none does
decoder_decode(opcode) ==
    IF decode_group1(opcode) # NoExecuter THEN decode_group1(opcode)
    ELSE IF decode_group2(opcode) # NoExecuter THEN decode_group2(opcode)
    ELSE IF decode_group3(opcode) # NoExecuter THEN decode_group3(opcode)
    ELSE InvalidOp

----------------------------------------------------------------------------
(* Stack (cpu.rs).  ADDR_STACK_UPPER | S is ADDR_STACK_UPPER + S, S being  *)
(* a byte.                                                                 *)

\* Variant of set_to_stack that addresses page zero
set_to_stack_page_zero(c, data) == mem_write(c, c.regs.s, data)

set_to_stack(c, data) == mem_write(c, ADDR_STACK_UPPER + c.regs.s, data)

dec_stack(c) == [c EXCEPT !.regs.s = wrapping_sub8(@, 1)]

push_stack(c, data) == dec_stack(set_to_stack(c, data))

inc_stack(c) == [c EXCEPT !.regs.s = wrapping_add8(@, 1)]

\* Variant of peek_stack that reads one byte above the stack pointer
peek_stack_above(c) ==
    mem_read(c, ADDR_STACK_UPPER + wrapping_add8(c.regs.s, 1))

peek_stack(c) == mem_read(c, ADDR_STACK_UPPER + c.regs.s)

pull_stack(c) == inc_stack(c)

pull_stack_ret(c) == peek_stack(inc_stack(c))

----------------------------------------------------------------------------
(* Operation cores (exec_core_g1.rs, exec_core_g3.rs): the Cpu after the   *)
(* core has run, and the byte the core returns.                            *)

\* Byte returned by lsr_action: val >> 1
lsr_ret(val) == val \div 2

\* Byte returned by asl_action: val << 1 in eight bits
asl_ret(val) == (val * 2) % 256

\* Byte returned by ror_action: (val >> 1) | ((p & CARRY) << 7)
ror_ret(p, val) == BitOr(val \div 2, BitAnd(p, CARRY) * 128)

\* Byte returned by rol_action: (val << 1) | (p & CARRY)
rol_ret(p, val) == BitOr((val * 2) % 256, BitAnd(p, CARRY))

\* Tail of the shift and rotate cores: p |= to_carry, then N and Z by the
\* shifted value
WithShifted(c, to_carry, shifted) ==
    [c EXCEPT !.regs.p =
        change_zero_by_value(
            change_negative_by_value(BitOr(@, to_carry), shifted), shifted)]

\* dec_action / inc_action: N and Z by the byte that is returned
WithNZOf(c, val) ==
    [c EXCEPT !.regs.p =
        change_zero_by_value(change_negative_by_value(@, val), val)]

\* bit_action: (val & !N) | (val & !V) and the Zero bit of A & val are
\* or-ed into p & (!N | !V | !Z)
bit_action(c, val) ==
    [c EXCEPT !.regs.p =
        BitOr(BitOr(BitAnd(@, BitOr(BitOr(BitNot(NEGATIVE), BitNot(OVERFLOW)),
                                    BitNot(ZERO))),
                    BitOr(BitAnd(val, BitNot(NEGATIVE)),
                          BitAnd(val, BitNot(OVERFLOW)))),
              IF BitAnd(c.regs.a, val) = 0 THEN 2 ELSE 0)]

\* iny_action: the sum goes to X, N and Z follow Y
iny_action(c) ==
    WithNZOf([c EXCEPT !.regs.x = wrapping_add8(c.regs.y, 1)], c.regs.y)

dey_action(c) ==
    WithNZOf([c EXCEPT !.regs.y = wrapping_sub8(@, 1)],
             wrapping_sub8(c.regs.y, 1))

inx_action(c) ==
    WithNZOf([c EXCEPT !.regs.x = wrapping_add8(@, 1)],
             wrapping_add8(c.regs.x, 1))

dex_action(c) ==
    WithNZOf([c EXCEPT !.regs.x = wrapping_sub8(@, 1)],
             wrapping_sub8(c.regs.x, 1))

fn_core(c, val) ==
    LET core == c.state.executer.fn_core IN
    CASE core = "LDA" -> a_set(c, val)
      [] core = "LDX" -> x_set(c, val)
      [] core = "CLC" -> flags_off(c, CARRY)
      [] core = "SEC" -> flags_on(c, CARRY)
      [] core = "CLI" -> flags_off(c, INT_DISABLE)
      [] core = "SEI" -> flags_on(c, INT_DISABLE)
      [] core = "LDY" -> y_set(c, val)
      [] core = "PHP" -> push_stack(c, c.regs.p)
      [] core = "PLP" -> [c EXCEPT !.regs.p = peek_stack(c)]
      [] core = "PHA" -> push_stack(c, c.regs.a)
      [] core = "PLA" ->
            LET a == peek_stack(c)
            IN [c EXCEPT !.regs.a = a,
                         !.regs.p = change_zero_by_value(
                                        change_negative_by_value(@, a), a)]
      [] core = "LSR" -> WithShifted(c, BitAnd(val, CARRY), lsr_ret(val))
      [] core = "ASL" -> WithShifted(c, BitAnd(val, 1), asl_ret(val))
      [] core = "ROR" ->
            WithShifted(c, BitAnd(val, CARRY), ror_ret(c.regs.p, val))
      [] core = "ROL" -> WithShifted(c, BitAnd(val, 1), rol_ret(c.regs.p, val))
      [] core = "ADC" -> a_add(c, val)
      [] core = "SBC" -> a_sub(c, val)
      [] core = "BIT" -> bit_action(c, val)
      [] core = "DEC" -> WithNZOf(c, wrapping_sub8(val, 1))
      [] core = "INC" -> WithNZOf(c, wrapping_add8(val, 1))
      [] core = "DEY" -> dey_action(c)
      [] core = "INY" -> iny_action(c)
      [] core = "INX" -> inx_action(c)
      [] core = "DEX" -> dex_action(c)
      [] core = "ORA" -> a_set(c, BitOr(c.regs.a, val))
      [] core = "AND" -> a_set(c, BitAnd(c.regs.a, val))
      [] core = "EOR" -> a_set(c, BitXor(c.regs.a, val))
      [] core = "CMP" -> cmp(c, c.regs.a, val)
      [] core = "CPY" -> cmp(c, c.regs.y, val)
      [] core = "CPX" -> cmp(c, c.regs.x, val)
      [] core = "TAY" -> WithNZOf([c EXCEPT !.regs.y = c.regs.a], c.regs.a)
      [] core = "TYA" -> WithNZOf([c EXCEPT !.regs.a = c.regs.y], c.regs.y)
      [] core = "TXA" -> WithNZOf([c EXCEPT !.regs.a = c.regs.x], c.regs.x)
      [] core = "TXS" -> [c EXCEPT !.regs.s = c.regs.x]
      [] core = "TAX" -> WithNZOf([c EXCEPT !.regs.x = c.regs.a], c.regs.a)
      [] core = "TSX" -> WithNZOf([c EXCEPT !.regs.x = c.regs.s], c.regs.s)
      [] core = "CLV" -> flags_off(c, OVERFLOW)
      [] core = "CLD" -> flags_off(c, DECIMAL)
      [] core = "SED" -> flags_on(c, DECIMAL)
      [] OTHER -> c

fn_core_ret(c, val) ==
    LET core == c.state.executer.fn_core IN
    CASE core = "STA" -> c.regs.a
      [] core = "STX" -> c.regs.x
      [] core = "STY" -> c.regs.y
      [] core = "LSR" -> lsr_ret(val)
      [] core = "ASL" -> asl_ret(val)
      [] core = "ROR" -> ror_ret(c.regs.p, val)
      [] core = "ROL" -> rol_ret(c.regs.p, val)
      [] core = "DEC" -> wrapping_sub8(val, 1)
      [] core = "INC" -> wrapping_add8(val, 1)
      [] core = "BCC" -> IF BitAnd(c.regs.p, CARRY) = 0 THEN 1 ELSE 0
      [] core = "BCS" -> IF BitAnd(c.regs.p, CARRY) # 0 THEN 1 ELSE 0
      [] core = "BNE" -> IF BitAnd(c.regs.p, ZERO) = 0 THEN 1 ELSE 0
      [] core = "BEQ" -> IF BitAnd(c.regs.p, ZERO) # 0 THEN 1 ELSE 0
      [] core = "BPL" -> IF BitAnd(c.regs.p, NEGATIVE) = 0 THEN 1 ELSE 0
      [] core = "BMI" -> IF BitAnd(c.regs.p, NEGATIVE) # 0 THEN 1 ELSE 0
      [] core = "BVC" -> IF BitAnd(c.regs.p, OVERFLOW) = 0 THEN 1 ELSE 0
      [] core = "BVS" -> IF BitAnd(c.regs.p, OVERFLOW) # 0 THEN 1 ELSE 0
      [] OTHER -> 0

----------------------------------------------------------------------------
(* Cpu (cpu.rs) *)

panic(c, what) == [c EXCEPT !.panicked = what]

fetch_ret(c) == mem_read(c, c.regs.pc)

fetch(c) ==
    [mem_read_effect(c, c.regs.pc) EXCEPT !.regs.pc = wrapping_add16(@, 1)]

clear_all_int_trigger(c) ==
    [c EXCEPT !.reset_occurred = FALSE, !.nmi_occurred = FALSE,
              !.irq_occurred = FALSE]

\* Variant of resolve_int_type that looks at the NMI latch first
resolve_int_type_ret_nmi_first(c) ==
    IF c.nmi_occurred THEN "Nmi"
    ELSE IF c.reset_occurred THEN "Reset"
    ELSE IF c.irq_occurred THEN "Irq"
    ELSE "None"

resolve_int_type_ret(c) ==
    IF c.reset_occurred THEN "Reset"
    ELSE IF c.nmi_occurred THEN "Nmi"
    ELSE IF c.irq_occurred THEN "Irq"
    ELSE "None"

resolve_int_type(c) ==
    IF c.reset_occurred THEN [c EXCEPT !.reset_occurred = FALSE]
    ELSE IF c.nmi_occurred THEN [c EXCEPT !.nmi_occurred = FALSE]
    ELSE IF c.irq_occurred THEN c
    ELSE panic(c, "unreachable")

\* Variant of check_int that resolves a kind whatever the latches hold
check_int_unconditional(c) ==
    [resolve_int_type(c) EXCEPT
        !.int_requested.kind = resolve_int_type_ret(c),
        !.int_requested.is_force_delayed = FALSE]

check_int(c) ==
    IF c.reset_occurred \/ c.nmi_occurred
       \/ (~int_disabled(c) /\ c.irq_occurred)
    THEN [resolve_int_type(c) EXCEPT
            !.int_requested.kind = resolve_int_type_ret(c),
            !.int_requested.is_force_delayed = FALSE]
    ELSE c

\* Variant of switch_state_int that leaves the pending slot filled
switch_state_int_keep_pending(c) ==
    [c EXCEPT !.state = [TmpStateDefault EXCEPT !.int = c.int_requested.kind],
              !.fn_step = "int_step",
              !.int_polling_enabled = FALSE]

switch_state_int(c) ==
    [c EXCEPT !.state = [TmpStateDefault EXCEPT !.int = c.int_requested.kind],
              !.int_requested = InterruptDefault,
              !.fn_step = "int_step",
              !.int_polling_enabled = FALSE]

switch_state_fetch(c) ==
    LET to_fetch(d) ==
            [d EXCEPT !.state = TmpStateDefault, !.fn_step = "fetch_step"]
    IN IF c.int_requested.kind # "None"
       THEN IF c.int_requested.is_force_delayed
            THEN to_fetch([c EXCEPT !.int_requested.is_force_delayed = FALSE])
            ELSE switch_state_int(c)
       ELSE to_fetch(c)

\* Variant of switch_state_exec that hands over to the fetch step
switch_state_exec_to_fetch(c) ==
    [c EXCEPT !.state = TmpStateDefault, !.fn_step = "fetch_step"]

switch_state_exec(c) ==
    [c EXCEPT !.state = TmpStateDefault, !.fn_step = "exec_step"]

\* Variant of exec_finished that keeps the sub-cycle counter and the executer
exec_finished_keeping_counter(c) ==
    [switch_state_fetch(c) EXCEPT !.state.counter = c.state.counter,
                                  !.state.fn_exec = c.state.fn_exec,
                                  !.state.executer = c.state.executer]

exec_finished(c) == switch_state_fetch(c)

\* self.ram[range].fill(data): every byte of lo ..= hi becomes data.  A byte
\* of the range that the image already holds as data needs no entry in
\* c.mem, every other byte of the range gets one.
raw_fill(c, lo, hi, data) ==
    [c EXCEPT !.mem =
        [a \in (DOMAIN c.mem \ (lo .. hi))
                \cup {b \in lo .. hi : Image(c.rom, b) # data} |->
            IF a \in lo .. hi THEN data ELSE c.mem[a]]]

power_on(c) ==
    LET c1 == [c EXCEPT !.regs.a = 0, !.regs.x = 0, !.regs.y = 0,
                        !.regs.s = 253]
        c2 == raw_fill(flags_on(c1, INT_DISABLE + BREAK + RESERVED),
                       0, 2047, 0)
        c3 == clear_all_int_trigger(c2)
        c4 == [c3 EXCEPT !.regs.pc = 49152]
    IN switch_state_fetch(c4)


----------------------------------------------------------------------------
(* Addressing templates (executer.rs) *)

\* Register destination: read the operand and hand it to the core.
\* Memory destination: write what the core returns.
access(c, addr) ==
    IF c.state.executer.dst = "Register"
    THEN LET c1 == mem_read_effect(c, addr)
         IN IF c1.panicked # "none" THEN c1
            ELSE fn_core(c1, mem_read(c, addr))
    ELSE mem_write(fn_core(c, 0), addr, fn_core_ret(c, 0))

exec_immediate(c) ==
    IF c.state.counter = 2
    THEN IF c.state.executer.dst = "Register"
         THEN exec_finished(fn_core(fetch(c), fetch_ret(c)))
         ELSE panic(c, "unreachable")
    ELSE panic(c, "unreachable")

exec_absolute(c) ==
    CASE c.state.counter = 2 -> [fetch(c) EXCEPT !.state.op_1 = fetch_ret(c)]
      [] c.state.counter = 3 -> [fetch(c) EXCEPT !.state.op_2 = fetch_ret(c)]
      [] c.state.counter = 4 ->
            exec_finished(access(c, make_addr(c.state.op_2, c.state.op_1)))
      [] OTHER -> panic(c, "unreachable")

\* Variant of exec_implied that runs the core and never finishes
exec_implied_never_finished(c) ==
    IF c.state.counter = 2 THEN fn_core(c, 0) ELSE c

exec_implied(c) ==
    IF c.state.counter = 2
    THEN exec_finished(fn_core(c, 0))
    ELSE panic(c, "unreachable")

exec_indexed_absolute_x(c) ==
    CASE c.state.counter = 2 -> [fetch(c) EXCEPT !.state.op_1 = fetch_ret(c)]
      [] c.state.counter = 3 -> [fetch(c) EXCEPT !.state.op_2 = fetch_ret(c)]
      [] c.state.counter = 4 ->
            LET low == c.state.op_1
                high == c.state.op_2
                addr == wrapping_add16(make_addr(high, low), c.regs.x)
                c1 == access(c, addr)
            IN IF low + c1.regs.x <= 255 THEN exec_finished(c1) ELSE c1
      [] c.state.counter = 5 -> exec_finished(c)
      [] OTHER -> panic(c, "unreachable")

exec_zeropage(c) ==
    CASE c.state.counter = 2 -> [fetch(c) EXCEPT !.state.op_1 = fetch_ret(c)]
      [] c.state.counter = 3 -> exec_finished(access(c, c.state.op_1))
      [] OTHER -> panic(c, "unreachable")

exec_indexed_zeropage_x(c) ==
    CASE c.state.counter = 2 -> [fetch(c) EXCEPT !.state.op_1 = fetch_ret(c)]
      [] c.state.counter = 3 ->
            [c EXCEPT !.state.op_1 = wrapping_add8(@, c.regs.x)]
      [] c.state.counter = 4 -> exec_finished(access(c, c.state.op_1))
      [] OTHER -> panic(c, "unreachable")

exec_indexed_zeropage_y(c) ==
    CASE c.state.counter = 2 -> [fetch(c) EXCEPT !.state.op_1 = fetch_ret(c)]
      [] c.state.counter = 3 ->
            [c EXCEPT !.state.op_1 = wrapping_add8(@, c.regs.y)]
      [] c.state.counter = 4 -> exec_finished(access(c, c.state.op_1))
      [] OTHER -> panic(c, "unreachable")

exec_indexed_absolute_y(c) ==
    CASE c.state.counter = 2 -> [fetch(c) EXCEPT !.state.op_1 = fetch_ret(c)]
      [] c.state.counter = 3 -> [fetch(c) EXCEPT !.state.op_2 = fetch_ret(c)]
      [] c.state.counter = 4 ->
            LET low == c.state.op_1
                high == c.state.op_2
                addr == wrapping_add16(make_addr(high, low), c.regs.y)
                c1 == access(c, addr)
            IN IF low + c1.regs.y <= 255 THEN exec_finished(c1) ELSE c1
      [] c.state.counter = 5 -> exec_finished(c)
      [] OTHER -> panic(c, "unreachable")

exec_indexed_indirect_x(c) ==
    CASE c.state.counter = 2 -> [fetch(c) EXCEPT !.state.op_1 = fetch_ret(c)]
      [] c.state.counter = 3 ->
            [c EXCEPT !.state.op_1 =
                mem_read(c, wrapping_add8(c.state.op_1, c.regs.x))]
      [] c.state.counter = 4 ->
            [c EXCEPT !.state.op_1 = mem_read(c, c.state.op_1)]
      [] c.state.counter = 5 ->
            [c EXCEPT !.state.op_2 =
                mem_read(c, wrapping_add8(c.state.op_1, 1))]
      [] c.state.counter = 6 ->
            exec_finished(access(c, make_addr(c.state.op_2, c.state.op_1)))
      [] OTHER -> panic(c, "unreachable")

exec_indirect_indexed_y(c) ==
    CASE c.state.counter = 2 -> [fetch(c) EXCEPT !.state.op_1 = fetch_ret(c)]
      [] c.state.counter = 3 ->
            [c EXCEPT !.state.op_2 = mem_read(c, c.state.op_1)]
      [] c.state.counter = 4 ->
            [c EXCEPT !.state.op_1 =
                mem_read(c, wrapping_add8(c.state.op_1, 1))]
      [] c.state.counter = 5 ->
            LET high == c.state.op_1
                low == c.state.op_2
                addr == wrapping_add16(make_addr(high, low), c.regs.y)
                c1 == access(c, addr)
            IN IF low + c1.regs.y <= 255 THEN exec_finished(c1) ELSE c1
      [] c.state.counter = 6 -> exec_finished(c)
      [] OTHER -> panic(c, "unreachable")

exec_accumulator(c) ==
    IF c.state.counter = 2
    THEN exec_finished(fn_core(c, 0))
    ELSE panic(c, "unreachable")

\* Variant of exec_indirect_jmp that reads the high byte at ptr + 1
exec_indirect_jmp_next_page(c) ==
    CASE c.state.counter = 2 -> [fetch(c) EXCEPT !.state.op_1 = fetch_ret(c)]
      [] c.state.counter = 3 -> [fetch(c) EXCEPT !.state.op_2 = fetch_ret(c)]
      [] c.state.counter = 4 -> c
      [] c.state.counter = 5 ->
            LET ptr == make_addr(c.state.op_2, c.state.op_1)
                low == mem_read(c, ptr)
                high == mem_read(c, wrapping_add16(ptr, 1))
            IN exec_finished(
                   fn_core([c EXCEPT !.regs.pc = make_addr(high, low)], 0))
      [] OTHER -> panic(c, "unreachable")

\* JMP (indirect): the pointer is fetched, then the target is read through
\* it, the high byte from the page of the pointer
exec_indirect_jmp(c) ==
    CASE c.state.counter = 2 -> [fetch(c) EXCEPT !.state.op_1 = fetch_ret(c)]
      [] c.state.counter = 3 -> [fetch(c) EXCEPT !.state.op_2 = fetch_ret(c)]
      [] c.state.counter = 4 -> c
      [] c.state.counter = 5 ->
            LET low == mem_read(c, make_addr(c.state.op_2, c.state.op_1))
                high == mem_read(c, make_addr(c.state.op_2,
                                              wrapping_add8(c.state.op_1, 1)))
            IN exec_finished(
                   fn_core([c EXCEPT !.regs.pc = make_addr(high, low)], 0))
      [] OTHER -> panic(c, "unreachable")

\* PHA / PHP: a dummy cycle, then the core pushes
exec_push_stack(c) ==
    CASE c.state.counter = 2 -> c
      [] c.state.counter = 3 -> exec_finished(fn_core(c, 0))
      [] OTHER -> panic(c, "unreachable")

\* PLA / PLP: a dummy cycle, S incremented, then the core reads through S
exec_pull_stack(c) ==
    CASE c.state.counter = 2 -> c
      [] c.state.counter = 3 -> inc_stack(c)
      [] c.state.counter = 4 -> exec_finished(fn_core(c, 0))
      [] OTHER -> panic(c, "unreachable")

\* Target of a branch: the offset is a signed byte added to PC
branch_target(pc, offset) ==
    (pc + (IF offset >= 128 THEN offset - 256 ELSE offset) + 65536) % 65536

same_page(addr1, addr2) == (addr1 \div 256) = (addr2 \div 256)

exec_relative(c) ==
    CASE c.state.counter = 2 ->
            LET c1 == [fetch(c) EXCEPT !.state.op_1 = fetch_ret(c)]
            IN IF fn_core_ret(c1, 0) = 0 THEN exec_finished(c1) ELSE c1
      [] c.state.counter = 3 ->
            LET target == branch_target(c.regs.pc, c.state.op_1)
                c1 == [c EXCEPT !.regs.pc = target]
            IN IF same_page(c.regs.pc, target)
               THEN exec_finished(
                        [c1 EXCEPT !.int_requested.is_force_delayed = TRUE])
               ELSE [c1 EXCEPT !.state.executer.last_cycle = 4]
      [] c.state.counter = 4 -> exec_finished(c)
      [] OTHER -> panic(c, "unreachable")

\* Read-modify-write: the byte at addr is written back unchanged
rmw_dummy_write(c, addr) ==
    LET c1 == mem_read_effect(c, addr)
    IN IF c1.panicked # "none" THEN c1
       ELSE mem_write(c1, addr, mem_read(c, addr))

\* Read-modify-write: the core runs on the byte at addr and what it returns
\* is written to addr
rmw_write(c, addr) ==
    mem_write(fn_core(c, mem_read(c, addr)), addr,
              fn_core_ret(c, mem_read(c, addr)))

\* Zero page read-modify-write, 5 cycles
exec_zeropage_rmw(c) ==
    CASE c.state.counter = 2 -> [fetch(c) EXCEPT !.state.op_1 = fetch_ret(c)]
      [] c.state.counter = 3 -> mem_read_effect(c, c.state.op_1)
      [] c.state.counter = 4 -> rmw_dummy_write(c, c.state.op_1)
      [] c.state.counter = 5 -> exec_finished(rmw_write(c, c.state.op_1))
      [] OTHER -> panic(c, "unreachable")

\* Absolute read-modify-write, 6 cycles
exec_absolute_rmw(c) ==
    CASE c.state.counter = 2 -> [fetch(c) EXCEPT !.state.op_1 = fetch_ret(c)]
      [] c.state.counter = 3 -> [fetch(c) EXCEPT !.state.op_2 = fetch_ret(c)]
      [] c.state.counter = 4 ->
            mem_read_effect(c, make_addr(c.state.op_2, c.state.op_1))
      [] c.state.counter = 5 ->
            rmw_dummy_write(c, make_addr(c.state.op_2, c.state.op_1))
      [] c.state.counter = 6 ->
            exec_finished(rmw_write(c, make_addr(c.state.op_2, c.state.op_1)))
      [] OTHER -> panic(c, "unreachable")

\* Zero page,X read-modify-write, 6 cycles
exec_indexed_zeropage_x_rmw(c) ==
    CASE c.state.counter = 2 -> [fetch(c) EXCEPT !.state.op_1 = fetch_ret(c)]
      [] c.state.counter = 3 ->
            [c EXCEPT !.state.op_1 = wrapping_add8(@, c.regs.x)]
      [] c.state.counter = 4 -> mem_read_effect(c, c.state.op_1)
      [] c.state.counter = 5 -> rmw_dummy_write(c, c.state.op_1)
      [] c.state.counter = 6 -> exec_finished(rmw_write(c, c.state.op_1))
      [] OTHER -> panic(c, "unreachable")

\* Effective address of absolute,X once both operand bytes are fetched
absolute_x_addr(c) ==
    wrapping_add16(make_addr(c.state.op_2, c.state.op_1), c.regs.x)

\* Absolute,X read-modify-write, 7 cycles whether or not a page is crossed
exec_indexed_absolute_x_rmw(c) ==
    CASE c.state.counter = 2 -> [fetch(c) EXCEPT !.state.op_1 = fetch_ret(c)]
      [] c.state.counter = 3 -> [fetch(c) EXCEPT !.state.op_2 = fetch_ret(c)]
      [] c.state.counter = 4 -> c
      [] c.state.counter = 5 -> mem_read_effect(c, absolute_x_addr(c))
      [] c.state.counter = 6 -> rmw_dummy_write(c, absolute_x_addr(c))
      [] c.state.counter = 7 -> exec_finished(rmw_write(c, absolute_x_addr(c)))
      [] OTHER -> panic(c, "unreachable")

\* JMP absolute, 3 cycles: the 16-bit address is fetched into PC
exec_absolute_jmp(c) ==
    CASE c.state.counter = 2 -> [fetch(c) EXCEPT !.state.op_1 = fetch_ret(c)]
      [] c.state.counter = 3 ->
            exec_finished(
                fn_core([fetch(c) EXCEPT !.regs.pc =
                            make_addr(fetch_ret(c), c.state.op_1)], 0))
      [] OTHER -> panic(c, "unreachable")

\* JSR, 6 cycles: fetch low; dummy; push PC-high; push PC-low; fetch high
\* and jump
exec_jsr(c) ==
    CASE c.state.counter = 2 -> [fetch(c) EXCEPT !.state.op_1 = fetch_ret(c)]
      [] c.state.counter = 3 -> c
      [] c.state.counter = 4 -> push_stack(c, (c.regs.pc \div 256) % 256)
      [] c.state.counter = 5 -> push_stack(c, c.regs.pc % 256)
      [] c.state.counter = 6 ->
            exec_finished(
                fn_core([fetch(c) EXCEPT !.regs.pc =
                            make_addr(fetch_ret(c), c.state.op_1)], 0))
      [] OTHER -> panic(c, "unreachable")

\* RTS, 6 cycles: dummies; pull low; pull high; PC = (high << 8 | low) + 1
exec_rts(c) ==
    CASE c.state.counter = 2 -> c
      [] c.state.counter = 3 -> c
      [] c.state.counter = 4 ->
            [pull_stack(c) EXCEPT !.state.op_1 = pull_stack_ret(c)]
      [] c.state.counter = 5 ->
            [pull_stack(c) EXCEPT !.state.op_2 = pull_stack_ret(c)]
      [] c.state.counter = 6 ->
            exec_finished(
                fn_core([c EXCEPT !.regs.pc =
                            wrapping_add16(
                                make_addr(c.state.op_2, c.state.op_1), 1)], 0))
      [] OTHER -> panic(c, "unreachable")

\* RTI, 6 cycles: dummies; pull P with the Break bit forced off; pull
\* PC-low; pull PC-high
exec_rti(c) ==
    CASE c.state.counter = 2 -> c
      [] c.state.counter = 3 -> c
      [] c.state.counter = 4 ->
            [pull_stack(c) EXCEPT
                !.regs.p = BitAnd(pull_stack_ret(c), BitNot(BREAK))]
      [] c.state.counter = 5 ->
            [pull_stack(c) EXCEPT !.state.op_1 = pull_stack_ret(c)]
      [] c.state.counter = 6 ->
            exec_finished(
                fn_core([pull_stack(c) EXCEPT !.regs.pc =
                            make_addr(pull_stack_ret(c), c.state.op_1)], 0))
      [] OTHER -> panic(c, "unreachable")

\* self.state.fn_exec.unwrap()(self)
fn_exec(c) ==
    LET t == c.state.fn_exec IN
    CASE t = "None" -> panic(c, "unwrap_none")
      [] t = "exec_immediate" -> exec_immediate(c)
      [] t = "exec_absolute" -> exec_absolute(c)
      [] t = "exec_implied" -> exec_implied(c)
      [] t = "exec_indexed_absolute_x" -> exec_indexed_absolute_x(c)
      [] t = "exec_relative" -> exec_relative(c)
      [] t = "exec_zeropage" -> exec_zeropage(c)
      [] t = "exec_indexed_zeropage_x" -> exec_indexed_zeropage_x(c)
      [] t = "exec_indexed_zeropage_y" -> exec_indexed_zeropage_y(c)
      [] t = "exec_indexed_absolute_y" -> exec_indexed_absolute_y(c)
      [] t = "exec_indexed_indirect_x" -> exec_indexed_indirect_x(c)
      [] t = "exec_indirect_indexed_y" -> exec_indirect_indexed_y(c)
      [] t = "exec_push_stack" -> exec_push_stack(c)
      [] t = "exec_pull_stack" -> exec_pull_stack(c)
      [] t = "exec_accumulator" -> exec_accumulator(c)
      [] t = "exec_indirect_jmp" -> exec_indirect_jmp(c)
      [] t = "exec_zeropage_rmw" -> exec_zeropage_rmw(c)
      [] t = "exec_absolute_rmw" -> exec_absolute_rmw(c)
      [] t = "exec_indexed_zeropage_x_rmw" -> exec_indexed_zeropage_x_rmw(c)
      [] t = "exec_indexed_absolute_x_rmw" -> exec_indexed_absolute_x_rmw(c)
      [] t = "exec_absolute_jmp" -> exec_absolute_jmp(c)
      [] t = "exec_jsr" -> exec_jsr(c)
      [] t = "exec_rts" -> exec_rts(c)
      [] t = "exec_rti" -> exec_rti(c)
      [] t = "fn_exec_dummy" -> c

----------------------------------------------------------------------------
(* State functions of the CPU (cpu/cpu_state.rs) *)

\* FETCH consults the instruction table: the entry of the opcode becomes
\* the executer, an opcode without an entry is a panic
table_decode(c, opcode) ==
    IF opcode \in DOMAIN INSTRUCTION_SET
    THEN [c EXCEPT !.state.fn_exec = INSTRUCTION_SET[opcode][1],
                   !.state.executer =
                      make_executer(INSTRUCTION_SET[opcode][1],
                                    INSTRUCTION_SET[opcode][2])]
    ELSE panic(c, "invalid_opcode")

\* decode of decoder.rs, as exec_step calls it: the executer is found by
\* the bit pattern of the opcode, panic_invalid_op where no group matches
decode(c, opcode) ==
    IF decoder_decode(opcode) = InvalidOp
    THEN panic(c, "invalid_opcode")
    ELSE [c EXCEPT !.state.fn_exec = decoder_decode(opcode)[1],
                   !.state.executer =
                      make_executer(decoder_decode(opcode)[1],
                                    decoder_decode(opcode)[2])]

fetch_step(c) ==
    LET opcode == fetch_ret(c)
        c1 == fetch(c)
    IN IF opcode = 0
       THEN switch_state_int([c1 EXCEPT !.int_requested.kind = "Brk"])
       ELSE LET c2 == table_decode(c1, opcode)
            IN IF c2.panicked # "none" THEN c2
               ELSE [c2 EXCEPT !.int_polling_enabled = TRUE,
                               !.fn_step = "exec_step"]

exec_step(c) ==
    IF c.state.counter = 1
    THEN decode([fetch(c) EXCEPT !.int_polling_enabled = FALSE], fetch_ret(c))
    ELSE fn_exec(c)

\* Cycle 1 of the interrupt sequence
int_step_resolve(c) ==
    LET c1 == flags_on([c EXCEPT !.int_polling_enabled = FALSE], INT_DISABLE)
        c2 == IF c1.reset_occurred
              THEN [c1 EXCEPT !.state.int = "Reset"]
              ELSE IF c1.nmi_occurred
              THEN [c1 EXCEPT !.state.int = "Nmi"]
              ELSE IF c1.irq_occurred
              THEN [c1 EXCEPT !.state.int =
                       IF c1.irq_is_brake THEN "Irq" ELSE "Brk"]
              ELSE c1
    IN clear_all_int_trigger(c2)

\* Variant of cycle 7 that reads the IRQ/BRK vector for every kind
int_step_enter_irq_vector_only(c) ==
    LET c1 == IF c.state.int = "Brk" THEN flags_on(c, BREAK)
              ELSE flags_off(c, BREAK)
        c2 == IF c1.state.int = "Brk"
              THEN [c1 EXCEPT !.regs.pc = wrapping_add16(@, 1)]
              ELSE c1
        c3 == push_stack(c2, (c2.regs.pc \div 256) % 256)
        c4 == push_stack(c3, c3.regs.pc % 256)
        c5 == push_stack(c4, c4.regs.p)
        c6 == flags_off(IF c1.state.int # "Reset" THEN c5 ELSE c1, BREAK)
        low == mem_read(c6, ADDR_INT_IRQ)
        high == mem_read(c6, ADDR_INT_IRQ + 1)
    IN IF c1.state.int = "Brk" /\ c1.regs.pc = 65535 /\ c1.overflow_checks
       THEN panic(c1, "add_overflow")
       ELSE IF c6.state.int = "None" THEN panic(c6, "invalid_int_type")
       ELSE switch_state_exec([c6 EXCEPT !.regs.pc = make_addr(high, low)])

\* Cycle 7 of the interrupt sequence.  `self.regs.pc += 1` on the u16 at
\* 0xFFFF panics where overflow checks are compiled in and wraps elsewhere.
int_step_enter(c) ==
    LET c1 == IF c.state.int = "Brk" THEN flags_on(c, BREAK)
              ELSE flags_off(c, BREAK)
        c2 == IF c1.state.int = "Brk"
              THEN [c1 EXCEPT !.regs.pc = wrapping_add16(@, 1)]
              ELSE c1
        c3 == push_stack(c2, (c2.regs.pc \div 256) % 256)
        c4 == push_stack(c3, c3.regs.pc % 256)
        c5 == push_stack(c4, c4.regs.p)
        c6 == flags_off(IF c1.state.int # "Reset" THEN c5 ELSE c1, BREAK)
        vec_addr == CASE c6.state.int = "Reset" -> ADDR_INT_RESET
                      [] c6.state.int = "Nmi" -> ADDR_INT_NMI
                      [] OTHER -> ADDR_INT_IRQ
        low == mem_read(c6, vec_addr)
        high == mem_read(c6, vec_addr + 1)
    IN IF c1.state.int = "Brk" /\ c1.regs.pc = 65535 /\ c1.overflow_checks
       THEN panic(c1, "add_overflow")
       ELSE IF c6.state.int = "None" THEN panic(c6, "invalid_int_type")
       ELSE switch_state_exec([c6 EXCEPT !.regs.pc = make_addr(high, low)])

\* Variant of int_step that enters the handler one cycle early
int_step_enter_at_six(c) ==
    IF c.state.counter = 1 THEN int_step_resolve(c)
    ELSE IF c.state.counter = 6 THEN int_step_enter(c)
    ELSE c

int_step(c) ==
    IF c.state.counter = 1 THEN int_step_resolve(c)
    ELSE IF c.state.counter = 7 THEN int_step_enter(c)
    ELSE c

\* Dispatch on the state function pointer
fn_step(c) ==
    CASE c.panicked # "none" -> c
      [] c.fn_step = "fetch_step" -> fetch_step(c)
      [] c.fn_step = "exec_step" -> exec_step(c)
      [] c.fn_step = "int_step" -> int_step(c)

\* Head of step: both counters advance.  `self.state.counter += 1` on the
\* u8 at 255 panics where overflow checks are compiled in and wraps
\* elsewhere.
step_count(c) ==
    IF c.state.counter = 255 /\ c.overflow_checks
    THEN panic([c EXCEPT !.clock_counter = @ + 1], "add_overflow")
    ELSE [c EXCEPT !.clock_counter = @ + 1,
                   !.state.counter = wrapping_add8(@, 1)]

\* Variant of step that polls at the end of the final cycle
step_poll_at_final_cycle(c) ==
    LET c2 == fn_step(step_count(c))
    IN IF c2.panicked # "none" THEN c2
       ELSE IF c2.int_polling_enabled /\ c2.int_requested.kind = "None"
       THEN IF c2.state.executer.last_cycle < c2.state.counter
               /\ c2.overflow_checks
            THEN panic(c2, "subtract_overflow")
            ELSE IF wrapping_sub8(c2.state.executer.last_cycle,
                                  c2.state.counter) = 0
            THEN check_int(c2)
            ELSE c2
       ELSE c2

\* Tail of step: the interrupt lines are polled one cycle before the last.
\* `last_cycle - counter` on u8 with last_cycle < counter panics where
\* overflow checks are compiled in and wraps elsewhere.
step_poll(c) ==
    IF c.panicked # "none" THEN c
    ELSE IF c.int_polling_enabled /\ c.int_requested.kind = "None"
    THEN IF c.state.executer.last_cycle < c.state.counter
            /\ c.overflow_checks
         THEN panic(c, "subtract_overflow")
         ELSE IF wrapping_sub8(c.state.executer.last_cycle,
                               c.state.counter) = 1
         THEN check_int(c)
         ELSE c
    ELSE c

step(c) == step_poll(fn_step(step_count(c)))

\* Variant of trigger_nmi that also releases the IRQ line
trigger_nmi_releasing_irq(c) ==
    [c EXCEPT !.nmi_occurred = TRUE, !.irq_occurred = FALSE]

trigger_nmi(c) == [c EXCEPT !.nmi_occurred = TRUE]

trigger_irq(c) == [c EXCEPT !.irq_occurred = TRUE]

stop_irq(c) == [c EXCEPT !.irq_occurred = FALSE]

trigger_reset(c) == [c EXCEPT !.reset_occurred = TRUE]

\* Cpu::new: the Cpu as constructed around a cartridge
new(rom, brake, checks) ==
    [mem |-> <<>>, ppu |-> ppu_power_on(ppu_new), rom |-> rom,
     clock_counter |-> 0,
     regs |-> [a |-> 0, x |-> 0, y |-> 0, s |-> 0, p |-> 0, pc |-> 0],
     reset_occurred |-> FALSE, nmi_occurred |-> FALSE, irq_occurred |-> FALSE,
     int_polling_enabled |-> FALSE, fn_step |-> "int_step",
     int_requested |-> InterruptDefault, state |-> TmpStateDefault,
     irq_is_brake |-> brake, overflow_checks |-> checks,
     panicked |-> "none"]

----------------------------------------------------------------------------
(* The program: main constructs the Cpu, powers it on and steps it, while  *)
(* the devices drive the interrupt pins.                                   *)

Init ==
    /\ \E rom \in (1 .. Len(Roms)), brake \in BOOLEAN, checks \in BOOLEAN :
          cpu = new(rom, brake, checks)
    /\ main_pc = "constructed"
    /\ bus_ops = 0
    /\ core_val = 0

PowerOn ==
    /\ main_pc = "constructed"
    /\ cpu' = power_on(cpu)
    /\ main_pc' = "running"
    /\ UNCHANGED <<bus_ops, core_val>>

Running == main_pc = "running" /\ cpu.panicked = "none"

\* Second statement of the loop body: ppu.step(), not reached once the
\* program has panicked
ppu_turn(c) ==
    IF c.panicked # "none" THEN c ELSE [c EXCEPT !.ppu = ppu_step(@)]

\* One turn of the main loop: cpu.step(), then ppu.step()
main_loop(c) == ppu_turn(step(c))

Step ==
    /\ Running
    /\ cpu.clock_counter < MaxClock
    /\ cpu' = main_loop(cpu)
    /\ UNCHANGED <<main_pc, bus_ops, core_val>>

TriggerNmi ==
    /\ Running
    /\ cpu' = trigger_nmi(cpu)
    /\ UNCHANGED <<main_pc, bus_ops, core_val>>

TriggerIrq ==
    /\ Running
    /\ cpu' = trigger_irq(cpu)
    /\ UNCHANGED <<main_pc, bus_ops, core_val>>

StopIrq ==
    /\ Running
    /\ cpu' = stop_irq(cpu)
    /\ UNCHANGED <<main_pc, bus_ops, core_val>>

TriggerReset ==
    /\ Running
    /\ cpu' = trigger_reset(cpu)
    /\ UNCHANGED <<main_pc, bus_ops, core_val>>

Next ==
    \/ PowerOn
    \/ Step
    \/ TriggerNmi
    \/ TriggerIrq
    \/ StopIrq
    \/ TriggerReset

Spec == Init /\ [][Next]_vars

TypeOK ==
    /\ cpu.regs.a \in 0 .. 255 /\ cpu.regs.x \in 0 .. 255
    /\ cpu.regs.s \in 0 .. 255 /\ cpu.regs.p \in 0 .. 255
    /\ cpu.regs.pc \in 0 .. 65535
    /\ cpu.int_requested.kind \in IntTypes
    /\ cpu.state.int \in IntTypes
    /\ cpu.fn_step \in {"fetch_step", "exec_step", "int_step"}
    /\ cpu.ppu.state \in {"IDLING", "READY"}
    /\ cpu.ppu.regs.latch \in 0 .. 255 /\ cpu.ppu.regs.status \in 0 .. 255

----------------------------------------------------------------------------
(* Vocabulary of the properties *)

\* The transition is one call of Cpu::step
IsStep == cpu'.clock_counter = cpu.clock_counter + 1

\* The transition is a call on the interrupt pins
IsPinCall == main_pc = "running" /\ cpu'.clock_counter = cpu.clock_counter

\* A latch is asserted that a poll would record, given the status register
Pollable(c, p) ==
    c.reset_occurred \/ c.nmi_occurred
    \/ (c.irq_occurred /\ BitAnd(p, INT_DISABLE) = 0)

\* The step ends one cycle before the executer's final cycle, polling on
AtPollPoint(c) ==
    /\ c.int_polling_enabled
    /\ c.state.executer.last_cycle - c.state.counter = 1

\* C1: a step fills the empty pending slot exactly when, at its end, polling
\* is enabled and final-cycle count minus sub-cycle counter is 1, and reset or
\* nmi is latched or irq is latched with InterruptDisable clear; an irq with
\* InterruptDisable set records nothing, and no other transition fills the
\* slot (a non-empty slot is never refilled).
C1_PollOnlyAtPenultimateCycle ==
    [][ /\ IsStep /\ cpu.int_requested.kind = "None" =>
            ( cpu'.int_requested.kind # "None"
              <=> ( /\ cpu'.panicked = "none"
                    /\ AtPollPoint(cpu')
                    /\ Pollable(cpu, cpu'.regs.p) ) )
        /\ ~IsStep => cpu'.int_requested = cpu.int_requested
      ]_vars

\* C1 witness: a poll has recorded an interrupt one cycle before the final
\* cycle of a four-cycle instruction
C1_Witness ==
    /\ cpu.int_requested.kind = "Nmi"
    /\ cpu.fn_step = "exec_step"
    /\ cpu.state.executer.last_cycle = 4
    /\ cpu.state.counter = 3

\* C1 witness of the gate: irq latched, InterruptDisable set, nothing recorded
\* at the poll point
C1_WitnessIrqMasked ==
    /\ cpu.irq_occurred /\ int_disabled(cpu)
    /\ AtPollPoint(cpu) /\ cpu.int_requested.kind = "None"

\* The step completes the instruction in execution (transient state reset)
FinishesInstruction ==
    /\ IsStep
    /\ cpu.fn_step = "exec_step"
    /\ cpu'.panicked = "none"
    /\ cpu'.state.counter = 0

\* The branch in execution is taken and its next cycle stays in the page
TakenSamePageBranch(c) ==
    /\ c.state.executer.fn_exec = "exec_relative"
    /\ c.state.counter = 2
    /\ same_page(c.regs.pc, branch_target(c.regs.pc, c.state.op_1))

\* The delay flag is up when the finishing cycle reaches switch_state_fetch
ForceDelayedAtFinish(c) ==
    c.int_requested.is_force_delayed \/ TakenSamePageBranch(c)

\* C2: when an instruction finishes, an empty pending slot leads to FETCH; a
\* non-empty slot without the delay flag leads to INTERRUPT with the pending
\* kind and the slot is emptied; a non-empty slot with the delay flag leads to
\* FETCH with the kind kept and the flag cleared.
C2_SwitchAtInstructionEnd ==
    [][ FinishesInstruction =>
          IF cpu.int_requested.kind = "None"
          THEN /\ cpu'.fn_step = "fetch_step"
               /\ cpu'.int_requested.kind = "None"
          ELSE IF ForceDelayedAtFinish(cpu)
          THEN /\ cpu'.fn_step = "fetch_step"
               /\ cpu'.int_requested =
                     [kind |-> cpu.int_requested.kind,
                      is_force_delayed |-> FALSE]
          ELSE /\ cpu'.fn_step = "int_step"
               /\ cpu'.state.int = cpu.int_requested.kind
               /\ cpu'.int_requested = InterruptDefault
      ]_vars

\* C2 witness: an instruction has finished with the delay flag up, the CPU is
\* in FETCH with the interrupt still pending and the flag down
C2_Witness ==
    /\ cpu.fn_step = "fetch_step"
    /\ cpu.state.counter = 0
    /\ cpu.int_requested.kind = "Irq"
    /\ ~cpu.int_requested.is_force_delayed

\* C3: an NMI latched, with polling enabled and the pending slot empty, no
\* later than the penultimate cycle of the instruction in execution is
\* serviced right after that instruction: the state after its last cycle is
\* INTERRUPT with kind Nmi, unless the instruction is a taken branch that
\* stays in the page (then the NMI is pending in FETCH).
C3_NmiServicedAfterInstruction ==
    LET s1 == step(cpu)
        s2 == step(s1)
    IN ( /\ main_pc = "running"
         /\ cpu.panicked = "none"
         /\ cpu.fn_step \in {"fetch_step", "exec_step"}
         /\ cpu.nmi_occurred /\ ~cpu.reset_occurred
         /\ cpu.int_requested.kind = "None"
         /\ s1.panicked = "none"
         /\ s1.fn_step = "exec_step"
         /\ s1.int_polling_enabled
         /\ s2.panicked = "none"
         /\ s2.state.counter = 0 )
       => \/ s2.fn_step = "int_step" /\ s2.state.int = "Nmi"
          \/ /\ TakenSamePageBranch(s1)
             /\ s2.fn_step = "fetch_step"
             /\ s2.int_requested.kind = "Nmi"

\* Cpu c stepped to the end of the instruction or sequence it is in
RECURSIVE RunToEnd(_, _)
RunToEnd(c, n) ==
    IF n = 0 \/ c.panicked # "none" THEN c
    ELSE LET d == step(c)
         IN IF d.state.counter = 0 THEN d ELSE RunToEnd(d, n - 1)

\* The CPU is in FETCH with an interrupt pending: the instruction before was
\* a taken same-page branch that delayed it
DelayedPending ==
    /\ main_pc = "running" /\ cpu.panicked = "none"
    /\ cpu.fn_step = "fetch_step"
    /\ cpu.int_requested.kind # "None"

\* A finishing branch with an interrupt pending: taken within the page it
\* leaves the interrupt pending in FETCH, otherwise INTERRUPT follows at once
C4_BranchEnd ==
    ( /\ FinishesInstruction
      /\ cpu.state.executer.fn_exec = "exec_relative"
      /\ cpu.int_requested.kind # "None" )
    => IF TakenSamePageBranch(cpu)
       THEN /\ cpu'.fn_step = "fetch_step"
            /\ cpu'.int_requested.kind = cpu.int_requested.kind
       ELSE /\ cpu'.fn_step = "int_step"
            /\ cpu'.state.int = cpu.int_requested.kind

\* C4: after a taken same-page branch the pending interrupt waits for exactly
\* one more instruction, which is fetched and executed, and is then serviced;
\* after any other branch it is serviced right after the branch.
C4_DelayedExactlyOneInstruction ==
    /\ [][C4_BranchEnd]_vars
    /\ [](DelayedPending =>
            LET s1 == step(cpu)
                e == RunToEnd(cpu, 8)
            IN /\ s1.panicked = "none" /\ s1.fn_step = "exec_step"
               /\ e.panicked = "none" /\ e.fn_step = "int_step"
               /\ e.state.int = cpu.int_requested.kind)

\* No interrupt is recorded and polling stays off from Cpu c to the end of the
\* instruction or sequence it is in, with the NMI line asserted all along
RECURSIVE QuietToEnd(_, _)
QuietToEnd(c, n) ==
    IF n = 0 \/ c.panicked # "none" THEN TRUE
    ELSE LET d == step(trigger_nmi(c))
         IN \/ d.panicked # "none"
            \/ /\ d.int_requested.kind = "None"
               /\ \/ d.state.counter = 0
                  \/ ~d.int_polling_enabled /\ QuietToEnd(d, n - 1)

\* C5: once an interrupt is pending no poll records another one until the
\* first instruction of its handler has completed: a non-empty pending slot
\* keeps its kind until it is emptied, polling is disabled in every state of
\* the INTERRUPT sequence, and from the cycle that loads the vector polling
\* stays disabled and nothing is recorded to the end of the first instruction.
C5_NoPollUntilFirstHandlerInstructionDone ==
    /\ [][cpu.int_requested.kind # "None" =>
            cpu'.int_requested.kind \in {cpu.int_requested.kind, "None"}]_vars
    /\ [](cpu.fn_step = "int_step" => ~cpu.int_polling_enabled)
    /\ []((main_pc = "running" /\ cpu.panicked = "none"
            /\ cpu.fn_step = "int_step" /\ cpu.state.counter = 6) =>
            LET s1 == step(trigger_nmi(cpu))
            IN /\ ~s1.int_polling_enabled
               /\ s1.int_requested.kind = "None"
               /\ s1.state.counter = 0
               /\ QuietToEnd(s1, 8))

\* C5 witness: the first instruction of a handler is in its last cycle with
\* an NMI latched, polling off and nothing recorded
C5_Witness ==
    /\ cpu.fn_step = "exec_step"
    /\ cpu.state.counter = 1
    /\ cpu.state.executer.last_cycle = 2
    /\ ~cpu.int_polling_enabled
    /\ cpu.nmi_occurred
    /\ cpu.int_requested.kind = "None"

\* C6: wherever the kind of an interrupt is resolved from the latches, Reset
\* is chosen when the reset latch is set, Nmi when only nmi of the two is set,
\* and Irq only when reset and nmi are both clear.
C6_PriorityResetNmiIrq ==
    [][ IsStep =>
          /\ (cpu.int_requested.kind = "None"
              /\ cpu'.int_requested.kind # "None") =>
                cpu'.int_requested.kind =
                    IF cpu.reset_occurred THEN "Reset"
                    ELSE IF cpu.nmi_occurred THEN "Nmi" ELSE "Irq"
          /\ (cpu.fn_step = "int_step" /\ cpu.state.counter = 0) =>
                /\ cpu.reset_occurred => cpu'.state.int = "Reset"
                /\ (~cpu.reset_occurred /\ cpu.nmi_occurred) =>
                        cpu'.state.int = "Nmi"
                /\ (cpu'.state.int = "Irq" /\ cpu.state.int # "Irq") =>
                        ~cpu.reset_occurred /\ ~cpu.nmi_occurred
      ]_vars

\* C6 witness: a poll chose Reset while the NMI and IRQ latches were set too
C6_Witness ==
    /\ cpu.int_requested.kind = "Reset"
    /\ cpu.nmi_occurred /\ cpu.irq_occurred
    /\ ~cpu.reset_occurred

\* C7: a step that resolves an interrupt clears the reset latch only when it
\* chooses Reset and the nmi latch only when it chooses Nmi, leaving the other
\* latches as they were, and no step ever clears the irq latch.
C7_OnlyChosenLatchCleared ==
    [][ IsStep =>
          /\ cpu'.irq_occurred = cpu.irq_occurred
          /\ (cpu.reset_occurred /\ ~cpu'.reset_occurred) =>
                /\ "Reset" \in {cpu'.int_requested.kind, cpu'.state.int}
                /\ cpu'.nmi_occurred = cpu.nmi_occurred
          /\ (cpu.nmi_occurred /\ ~cpu'.nmi_occurred) =>
                /\ "Nmi" \in {cpu'.int_requested.kind, cpu'.state.int}
                /\ cpu'.reset_occurred = cpu.reset_occurred
          /\ cpu'.reset_occurred => cpu.reset_occurred
          /\ cpu'.nmi_occurred => cpu.nmi_occurred
      ]_vars

\* C8: a call on the interrupt pins changes nothing but its own latch:
\* trigger_nmi sets nmi_occurred, trigger_irq sets irq_occurred, stop_irq
\* clears irq_occurred, trigger_reset sets reset_occurred.
C8_PinCallsTouchOnlyTheirLatch ==
    [][ (IsPinCall /\ cpu' # cpu) =>
          \/ ~cpu.nmi_occurred /\ cpu' = [cpu EXCEPT !.nmi_occurred = TRUE]
          \/ ~cpu.irq_occurred /\ cpu' = [cpu EXCEPT !.irq_occurred = TRUE]
          \/ cpu.irq_occurred /\ cpu' = [cpu EXCEPT !.irq_occurred = FALSE]
          \/ ~cpu.reset_occurred
             /\ cpu' = [cpu EXCEPT !.reset_occurred = TRUE]
      ]_vars

\* C8 witness: the reset and nmi pins were driven in the middle of an
\* instruction and the instruction's transient state is as the steps left it
C8_Witness ==
    /\ cpu.reset_occurred /\ cpu.nmi_occurred /\ ~cpu.irq_occurred
    /\ cpu.fn_step = "exec_step"
    /\ cpu.state.executer.fn_exec = "exec_absolute"
    /\ cpu.state.counter = 2
    /\ cpu.int_requested.kind = "None"

\* C9: a step changes the mode only along FETCH -> EXEC (opcode not 0x00),
\* FETCH -> INTERRUPT (opcode 0x00, kind Brk), EXEC -> FETCH, EXEC ->
\* INTERRUPT and INTERRUPT -> FETCH (on cycle 7); FETCH lasts one cycle and
\* INTERRUPT never leads to EXEC.
C9_ModeEdges ==
    [][ (IsStep /\ cpu'.panicked = "none") =>
          CASE cpu.fn_step = "fetch_step" ->
                  IF mem_read(cpu, cpu.regs.pc) = 0
                  THEN cpu'.fn_step = "int_step" /\ cpu'.state.int = "Brk"
                  ELSE cpu'.fn_step = "exec_step"
            [] cpu.fn_step = "exec_step" ->
                  cpu'.fn_step \in {"exec_step", "fetch_step", "int_step"}
            [] cpu.fn_step = "int_step" ->
                  IF cpu.state.counter = 6
                  THEN cpu'.fn_step = "fetch_step"
                  ELSE cpu'.fn_step = "int_step"
      ]_vars

\* The vector of an interrupt kind
VectorOf(kind) ==
    CASE kind = "Reset" -> 65532
      [] kind = "Nmi" -> 65530
      [] kind \in {"Irq", "Brk"} -> 65534

\* C10: an INTERRUPT sequence of any kind is entered with the sub-cycle
\* counter at 0, stays in INTERRUPT for the first six steps and leaves it on
\* the seventh with PC loaded from the vector of its kind.
C10_InterruptTakesSevenSteps ==
    /\ [](cpu.fn_step = "int_step" => cpu.state.counter \in 0 .. 6)
    /\ [][ IsStep =>
            /\ (cpu.fn_step # "int_step" /\ cpu'.fn_step = "int_step") =>
                    cpu'.state.counter = 0
            /\ (cpu.fn_step = "int_step" /\ cpu.state.counter < 6) =>
                    /\ cpu'.fn_step = "int_step"
                    /\ cpu'.state.counter = cpu.state.counter + 1
            /\ (cpu.fn_step = "int_step" /\ cpu.state.counter = 6) =>
                    /\ cpu'.fn_step # "int_step"
                    /\ cpu.state.int # "None"
                    /\ cpu'.regs.pc =
                          make_addr(
                            mem_read(cpu, VectorOf(cpu.state.int) + 1),
                            mem_read(cpu, VectorOf(cpu.state.int)))
         ]_vars

\* C10 witness: seven steps after an NMI was taken the CPU has left INTERRUPT
\* with PC at the NMI handler
C10_Witness ==
    /\ cpu.fn_step # "int_step"
    /\ cpu.state.counter = 0
    /\ cpu.regs.pc = 49391
    /\ cpu.clock_counter >= 9


----------------------------------------------------------------------------
(* Interrupt entry: what the sequence leaves on the stack and in the       *)
(* registers.                                                              *)

\* The CPU is about to run the first cycle of an INTERRUPT sequence
IntEntry ==
    /\ main_pc = "running"
    /\ cpu.panicked = "none"
    /\ cpu.fn_step = "int_step"
    /\ cpu.state.counter = 0

\* Byte of the stack page at stack pointer value s
StackByte(c, s) == mem_read(c, ADDR_STACK_UPPER + s)

\* C11: an NMI or IRQ entry sequence, started with stack pointer S0, program
\* counter PC0 and status P0, ends with PC0 high at 0x0100+S0, PC0 low at
\* 0x0100+(S0-1), P0 with the Break bit 0 at 0x0100+(S0-2), S = S0-3,
\* InterruptDisable set in P, and PC equal to the little-endian word at the
\* vector of the kind.
C11_NmiIrqEntryStackAndRegisters ==
    LET e == RunToEnd(cpu, 7)
        S0 == cpu.regs.s
        PC0 == cpu.regs.pc
        P0 == cpu.regs.p
        vec == VectorOf(cpu.state.int)
    IN (IntEntry /\ cpu.state.int \in {"Nmi", "Irq"} /\ e.panicked = "none")
       => /\ e.fn_step # "int_step"
          /\ StackByte(e, S0) = PC0 \div 256
          /\ StackByte(e, wrapping_sub8(S0, 1)) = PC0 % 256
          /\ StackByte(e, wrapping_sub8(S0, 2)) = BitAnd(P0, BitNot(BREAK))
          /\ e.regs.s = wrapping_sub8(S0, 3)
          /\ BitAnd(e.regs.p, INT_DISABLE) # 0
          /\ e.regs.pc = make_addr(mem_read(cpu, vec + 1), mem_read(cpu, vec))


\* This step runs the core of the instruction named core and finishes it
FinishesCore(core) ==
    /\ IsStep
    /\ cpu.fn_step = "exec_step"
    /\ cpu.state.executer.fn_core = core
    /\ cpu'.panicked = "none"
    /\ cpu'.state.counter = 0

\* This step is the last of an INTERRUPT sequence of one of the kinds, the
\* kind being the one in force when the step starts
EndsSequenceOf(kinds) ==
    /\ IsStep
    /\ cpu.fn_step = "int_step"
    /\ cpu.state.counter = 6
    /\ cpu.state.int \in kinds
    /\ cpu'.panicked = "none"

\* The copy of P that the sequence or the PHP ending in this step has left
\* on top of the stack
StackedP == StackByte(cpu', wrapping_add8(cpu'.regs.s, 1))

\* C12: the copy of P stacked by BRK and by PHP has the Break bit set, the
\* copy stacked by an NMI or IRQ entry has it clear, and the live P never
\* shows the Break bit set after a completed instruction or interrupt
\* sequence.
C12_BreakOnlyInStackedCopies ==
    [][ /\ FinishesCore("PHP") => BitAnd(StackedP, BREAK) # 0
        /\ EndsSequenceOf({"Brk"}) => BitAnd(StackedP, BREAK) # 0
        /\ EndsSequenceOf({"Nmi", "Irq"}) => BitAnd(StackedP, BREAK) = 0
        /\ (IsStep /\ cpu'.panicked = "none" /\ cpu'.state.counter = 0)
              => BitAnd(cpu'.regs.p, BREAK) = 0
      ]_vars


\* C13: the last step of an INTERRUPT sequence loads PC with the byte at the
\* vector in the low half and the byte at vector+1 in the high half, the
\* vector being 0xFFFC for Reset, 0xFFFA for Nmi and 0xFFFE for Irq and Brk,
\* whatever the latches, the pending slot and the registers hold.
C13_VectorByKindAlone ==
    [][ /\ EndsSequenceOf({"Reset"}) =>
              cpu'.regs.pc = mem_read(cpu', 65533) * 256 + mem_read(cpu', 65532)
        /\ EndsSequenceOf({"Nmi"}) =>
              cpu'.regs.pc = mem_read(cpu', 65531) * 256 + mem_read(cpu', 65530)
        /\ EndsSequenceOf({"Irq", "Brk"}) =>
              cpu'.regs.pc = mem_read(cpu', 65535) * 256 + mem_read(cpu', 65534)
      ]_vars

\* C13 witness: a sequence that was entered has ended at the IRQ/BRK handler
\* while the NMI latch is set again
C13_Witness ==
    /\ cpu.panicked = "none"
    /\ cpu.fn_step = "exec_step"
    /\ cpu.state.counter = 0
    /\ cpu.regs.pc = 53248
    /\ cpu.nmi_occurred


\* C14: a Reset entry sequence writes no byte of memory and ends with the
\* stack pointer three below its value at entry, modulo 256.
C14_ResetWritesNothingAndDropsS ==
    LET e == RunToEnd(cpu, 7)
    IN (IntEntry /\ cpu.state.int = "Reset" /\ e.panicked = "none")
       => /\ e.fn_step # "int_step"
          /\ e.mem = cpu.mem
          /\ e.regs.s = wrapping_sub8(cpu.regs.s, 3)


\* The CPU is in FETCH and the byte at PC is the BRK opcode
FetchesBrk ==
    /\ main_pc = "running"
    /\ cpu.panicked = "none"
    /\ cpu.fn_step = "fetch_step"
    /\ fetch_ret(cpu) = 0

\* C15: when the byte fetched in FETCH is 0x00 the CPU runs an INTERRUPT
\* sequence of kind Brk whatever the latches hold: the return address on the
\* stack is the address of the BRK opcode plus 2, the stacked P has Break
\* set, InterruptDisable is set, PC is loaded from 0xFFFE/0xFFFF, and the
\* three latches are as they were when the BRK was fetched.
C15_BrkEntry ==
    LET s1 == step(cpu)
        e == RunToEnd(s1, 7)
        S0 == cpu.regs.s
        ret == wrapping_add16(cpu.regs.pc, 2)
    IN (FetchesBrk /\ e.panicked = "none")
       => /\ s1.fn_step = "int_step" /\ s1.state.int = "Brk"
          /\ e.fn_step # "int_step"
          /\ StackByte(e, S0) = ret \div 256
          /\ StackByte(e, wrapping_sub8(S0, 1)) = ret % 256
          /\ BitAnd(StackByte(e, wrapping_sub8(S0, 2)), BREAK) # 0
          /\ e.regs.s = wrapping_sub8(S0, 3)
          /\ BitAnd(e.regs.p, INT_DISABLE) # 0
          /\ e.regs.pc = make_addr(mem_read(cpu, ADDR_INT_IRQ + 1),
                                   mem_read(cpu, ADDR_INT_IRQ))
          /\ e.reset_occurred = cpu.reset_occurred
          /\ e.nmi_occurred = cpu.nmi_occurred
          /\ e.irq_occurred = cpu.irq_occurred


----------------------------------------------------------------------------
(* Cycle counts *)

\* The CPU is about to fetch the opcode of an instruction of the table
InstructionStart ==
    /\ main_pc = "running"
    /\ cpu.panicked = "none"
    /\ cpu.fn_step \in {"fetch_step", "exec_step"}
    /\ cpu.state.counter = 0
    /\ fetch_ret(cpu) \in DOMAIN INSTRUCTION_SET

\* Number of step() calls from c up to and including the one that ends the
\* instruction or sequence c is in (at most n are counted)
RECURSIVE StepsToEnd(_, _)
StepsToEnd(c, n) ==
    IF n = 0 \/ c.panicked # "none" THEN 0
    ELSE LET d == step(c)
         IN IF d.state.counter = 0 THEN 1 ELSE 1 + StepsToEnd(d, n - 1)

\* The instruction at PC is a branch whose condition holds
BranchTaken(c) ==
    /\ INSTRUCTION_SET[fetch_ret(c)][1] = "exec_relative"
    /\ fn_core_ret(table_decode(c, fetch_ret(c)), 0) # 0

\* Cycle count the table declares for the instruction at PC, with the
\* increments for a page cross and for a taken branch
DeclaredCycles(c) ==
    LET template == INSTRUCTION_SET[fetch_ret(c)][1]
        min_clock == Templates[template].min_clock
        operand == mem_read(c, wrapping_add16(c.regs.pc, 1))
        after == wrapping_add16(c.regs.pc, 2)
        carry(low, index) == IF low + index > 255 THEN 1 ELSE 0
    IN CASE template = "exec_indexed_absolute_x" ->
                min_clock + carry(operand, c.regs.x)
         [] template = "exec_indexed_absolute_y" ->
                min_clock + carry(operand, c.regs.y)
         [] template = "exec_indirect_indexed_y" ->
                min_clock + carry(mem_read(c, operand), c.regs.y)
         [] template = "exec_relative" ->
                IF ~BranchTaken(c) THEN min_clock
                ELSE IF same_page(after, branch_target(after, operand))
                THEN min_clock + 1
                ELSE min_clock + 2
         [] OTHER -> min_clock

\* C16: every instruction of the table takes, from its opcode fetch to the
\* step in which it finishes, the min_clock of its template, plus one for
\* Absolute,X / Absolute,Y / (Indirect),Y when base-low + index overflows,
\* plus one for a taken branch and one more when the taken branch crosses a
\* page; a branch that is not taken takes two.
C16_CyclesAsDeclared ==
    (InstructionStart /\ RunToEnd(cpu, 8).panicked = "none")
    => /\ StepsToEnd(cpu, 8) = DeclaredCycles(cpu)
       /\ (INSTRUCTION_SET[fetch_ret(cpu)][1] = "exec_relative"
           /\ ~BranchTaken(cpu)) => StepsToEnd(cpu, 8) = 2


----------------------------------------------------------------------------
(* Status register images *)

\* C17: bit 5 (Reserved) of P is 1 after power_on and after every completed
\* instruction or interrupt sequence, and every copy of P written to the
\* stack by PHP, BRK, NMI or IRQ has bit 5 set, whatever byte a PLP pulled
\* before.
C17_ReservedAlwaysSet ==
    [][ /\ (main_pc = "constructed" /\ main_pc' = "running")
              => BitAnd(cpu'.regs.p, RESERVED) # 0
        /\ (IsStep /\ cpu'.panicked = "none" /\ cpu'.state.counter = 0)
              => BitAnd(cpu'.regs.p, RESERVED) # 0
        /\ FinishesCore("PHP") => BitAnd(StackedP, RESERVED) # 0
        /\ EndsSequenceOf({"Brk", "Nmi", "Irq"})
              => BitAnd(StackedP, RESERVED) # 0
      ]_vars


----------------------------------------------------------------------------
(* Stack discipline *)

\* Bytes pushed when the stack operations are examined
StackData == {0, 1, 90, 128, 255}

\* Stack pointers examined in a state: the current one, and every byte value
\* in the state right after power_on
StackPointers ==
    IF cpu.clock_counter = 0 THEN 0 .. 255 ELSE {cpu.regs.s}

\* C18: a push writes its byte at 0x0100 + S, inside 0x0100-0x01FF, touches
\* no other byte of RAM (mirrors apart) and then lowers S by one modulo 256;
\* a pull first raises S by one modulo 256, then reads at 0x0100 + S and
\* writes nothing; a push followed at once by a pull returns the pushed byte
\* and restores S, also across the wrap between 0x00 and 0xFF.  The three
\* pushes of an interrupt entry land in the stack page in this way.
C18_StackAddressingAndRoundTrip ==
    /\ [](main_pc = "running" =>
            \A s \in StackPointers, d \in StackData :
                LET c == [cpu EXCEPT !.regs.s = s]
                    pushed == push_stack(c, d)
                    up == (s + 1) % 256
                IN /\ 256 + s \in 256 .. 511
                   /\ 256 + s \in DOMAIN pushed.mem
                   /\ pushed.mem[256 + s] = d
                   /\ \A a \in DOMAIN pushed.mem :
                         a % 2048 # 256 + s =>
                            a \in DOMAIN c.mem /\ pushed.mem[a] = c.mem[a]
                   /\ pushed.regs.s = (s + 255) % 256
                   /\ pull_stack(c).regs.s = up
                   /\ pull_stack(c).mem = c.mem
                   /\ pull_stack_ret(c) = mem_read(c, 256 + up)
                   /\ pull_stack_ret(pushed) = d
                   /\ pull_stack(pushed).regs.s = s)
    /\ [][ EndsSequenceOf({"Nmi", "Irq", "Brk"}) =>
                LET S0 == cpu.regs.s
                    slots == {256 + S0, 256 + ((S0 + 255) % 256),
                              256 + ((S0 + 254) % 256)}
                IN /\ cpu'.regs.s = (S0 + 253) % 256
                   /\ slots \subseteq DOMAIN cpu'.mem
                   /\ \A a \in DOMAIN cpu'.mem :
                         a % 2048 \notin slots =>
                            a \in DOMAIN cpu.mem /\ cpu'.mem[a] = cpu.mem[a]
         ]_vars

\* C18 witness: a byte pushed with S = 0x00 went to 0x0100, S wrapped to
\* 0xFF, and the pull that followed brought the byte back with S = 0x00
C18_Witness ==
    /\ cpu.panicked = "none"
    /\ cpu.fn_step = "fetch_step"
    /\ cpu.regs.s = 0
    /\ cpu.regs.a = 90
    /\ mem_read(cpu, 256) = 90


----------------------------------------------------------------------------
(* Push / pull pairs *)

\* The instruction about to be fetched has this opcode
StartsOpcode(c, opcode) ==
    /\ c.panicked = "none"
    /\ c.fn_step \in {"fetch_step", "exec_step"}
    /\ c.state.counter = 0
    /\ fetch_ret(c) = opcode

\* The flags of p with N and Z set from val
WithNZ(p, val) ==
    BitOr(BitAnd(p, 255 - NEGATIVE - ZERO),
          BitOr(IF val >= 128 THEN NEGATIVE ELSE 0,
                IF val = 0 THEN ZERO ELSE 0))

\* C19: PHA leaves A and the flags alone and puts A on the stack; a PLA that
\* follows, at once or after one instruction that leaves S and the stacked
\* byte as they are, ends with A and S as they were before the PHA, N equal
\* to bit 7 of A, Z equal to (A = 0) and every other flag as it was when the
\* PLA began.
C19_PhaPlaRestoresA ==
    LET A0 == cpu.regs.a
        S0 == cpu.regs.s
        c1 == RunToEnd(cpu, 8)
        PlaAfter(c2) ==
            LET e == RunToEnd(c2, 8)
            IN ( /\ StartsOpcode(c2, 104)
                 /\ c2.regs.s = c1.regs.s
                 /\ StackByte(c2, S0) = A0
                 /\ e.panicked = "none" )
               => /\ e.regs.a = A0
                  /\ e.regs.s = S0
                  /\ e.regs.p = WithNZ(c2.regs.p, A0)
    IN (main_pc = "running" /\ StartsOpcode(cpu, 72) /\ c1.panicked = "none")
       => /\ c1.regs.a = A0
          /\ c1.regs.p = cpu.regs.p
          /\ c1.regs.s = wrapping_sub8(S0, 1)
          /\ StackByte(c1, S0) = A0
          /\ PlaAfter(c1)
          /\ PlaAfter(RunToEnd(c1, 8))

\* C19 witness: LDA #$80; PHA; LDA #$00; PLA has run, and A is 0x80 again
\* with N set, Z clear and S back at its value before the PHA
C19_Witness ==
    /\ cpu.panicked = "none"
    /\ cpu.rom = 3
    /\ cpu.fn_step = "fetch_step"
    /\ cpu.regs.pc = 49158
    /\ cpu.regs.a = 128
    /\ cpu.regs.s = 253
    /\ BitAnd(cpu.regs.p, NEGATIVE) # 0
    /\ BitAnd(cpu.regs.p, ZERO) = 0


\* C20: PHP followed at once by PLP ends with S as before the PHP and with
\* every bit of P as before the PHP, except the Break bit, which is 0 after
\* the pull whatever P was.
C20_PhpPlpRestoresPWithoutBreak ==
    LET c1 == RunToEnd(cpu, 8)
        e == RunToEnd(c1, 8)
    IN ( /\ main_pc = "running"
         /\ StartsOpcode(cpu, 8)
         /\ StartsOpcode(c1, 40)
         /\ e.panicked = "none" )
       => /\ e.regs.p = BitAnd(cpu.regs.p, 255 - BREAK)
          /\ e.regs.s = cpu.regs.s


----------------------------------------------------------------------------
(* Clock driver (main.rs) *)

\* C21: after n turns of the clock driver the PPU has been stepped n times
\* and the CPU floor(n/3) times: the CPU clock is a third of the PPU clock
\* as long as the program runs.
C21_CpuSteppedEveryThirdPpuStep ==
    cpu.panicked = "none" =>
        cpu.clock_counter = cpu.ppu.clock_counter \div 3

----------------------------------------------------------------------------
(* Undefined opcodes *)

\* The CPU is about to fetch an opcode byte that has no entry in the table
\* and is not BRK
FetchesUndefined ==
    /\ main_pc = "running"
    /\ cpu.panicked = "none"
    /\ cpu.fn_step \in {"fetch_step", "exec_step"}
    /\ cpu.state.counter = 0
    /\ fetch_ret(cpu) # 0
    /\ fetch_ret(cpu) \notin DOMAIN INSTRUCTION_SET

\* C22: the step that fetches an opcode byte without a table entry (0x00
\* apart) ends in the invalid-opcode panic, changes no register but PC and
\* no memory cell, and after a panic nothing is executed any more.
C22_UndefinedOpcodePanics ==
    [][/\ (FetchesUndefined /\ IsStep) =>
            /\ cpu'.panicked = "invalid_opcode"
            /\ cpu'.regs = [cpu.regs EXCEPT !.pc = wrapping_add16(@, 1)]
            /\ cpu'.mem = cpu.mem
            /\ cpu'.ppu = cpu.ppu
       /\ cpu.panicked # "none" => UNCHANGED vars]_vars

----------------------------------------------------------------------------
(* JMP (indirect) *)

\* C27: JMP (indirect) through the pointer ptr ends with the low byte of PC
\* equal to M[ptr] and the high byte equal to
\* M[(ptr & 0xFF00) | ((ptr + 1) & 0x00FF)], the byte at the start of the
\* page of ptr when ptr ends in 0xFF, and takes 5 cycles.
C27_IndirectJmpPageWrap ==
    LET ptr == make_addr(ram(cpu, wrapping_add16(cpu.regs.pc, 2)),
                         ram(cpu, wrapping_add16(cpu.regs.pc, 1)))
        e == RunToEnd(cpu, 8)
    IN (main_pc = "running" /\ StartsOpcode(cpu, 108)) =>
          /\ e.panicked = "none"
          /\ e.regs.pc =
                make_addr(mem_read(cpu, (ptr \div 256) * 256 + ((ptr + 1) % 256)),
                          mem_read(cpu, ptr))
          /\ StepsToEnd(cpu, 8) = 5

\* C27 witness: JMP ($02FF) has run with 0x40 at 0x02FF, 0xC0 at 0x0200 and
\* 0xD0 at 0x0300, and PC is 0xC040
C27_Witness ==
    /\ cpu.panicked = "none"
    /\ cpu.rom = 6
    /\ cpu.state.counter = 0
    /\ cpu.fn_step \in {"fetch_step", "int_step"}
    /\ cpu.clock_counter = 23
    /\ ram(cpu, 767) = 64 /\ ram(cpu, 512) = 192 /\ ram(cpu, 768) = 208
    /\ cpu.regs.pc = 49216

----------------------------------------------------------------------------
(* Termination of the templates *)

\* C28 is settled further down, on every opcode of the table.

----------------------------------------------------------------------------
(* Stores and loads through the addressing templates *)

\* Effective address of the instruction about to be fetched by c, by the
\* addressing mode of its template
EffectiveAddress(c) ==
    LET t == INSTRUCTION_SET[fetch_ret(c)][1]
        op1 == ram(c, wrapping_add16(c.regs.pc, 1))
        op2 == ram(c, wrapping_add16(c.regs.pc, 2))
        zx == wrapping_add8(op1, c.regs.x)
    IN CASE t = "exec_zeropage" -> op1
         [] t = "exec_indexed_zeropage_x" -> zx
         [] t = "exec_indexed_zeropage_y" -> wrapping_add8(op1, c.regs.y)
         [] t = "exec_absolute" -> make_addr(op2, op1)
         [] t = "exec_indexed_absolute_x" ->
                wrapping_add16(make_addr(op2, op1), c.regs.x)
         [] t = "exec_indexed_absolute_y" ->
                wrapping_add16(make_addr(op2, op1), c.regs.y)
         [] t = "exec_indexed_indirect_x" ->
                make_addr(ram(c, wrapping_add8(zx, 1)), ram(c, zx))
         [] t = "exec_indirect_indexed_y" ->
                wrapping_add16(
                    make_addr(ram(c, wrapping_add8(op1, 1)), ram(c, op1)),
                    c.regs.y)
         [] OTHER -> 0

\* Templates that address an operand in memory
OperandTemplates ==
    {"exec_zeropage", "exec_indexed_zeropage_x", "exec_indexed_zeropage_y",
     "exec_absolute", "exec_indexed_absolute_x", "exec_indexed_absolute_y",
     "exec_indexed_indirect_x", "exec_indirect_indexed_y"}

\* C29: a store (STA, STX, STY) ends with its register (A, X, Y) at the
\* effective address and with A, X, Y, S, P and the PPU registers as they
\* were; a load through an addressing template ends with the byte of the
\* effective address in its register and with memory as it was.
C29_StoresWriteLoadsRead ==
    LET core == INSTRUCTION_SET[fetch_ret(cpu)][2]
        addr == EffectiveAddress(cpu)
        e == RunToEnd(cpu, 8)
        KeepsRegisters ==
            /\ e.regs.a = cpu.regs.a /\ e.regs.x = cpu.regs.x
            /\ e.regs.y = cpu.regs.y /\ e.regs.s = cpu.regs.s
            /\ e.regs.p = cpu.regs.p
    IN (InstructionStart
        /\ INSTRUCTION_SET[fetch_ret(cpu)][1] \in OperandTemplates) =>
          /\ core = "STA" =>
                KeepsRegisters /\ e.ppu = cpu.ppu /\ ram(e, addr) = cpu.regs.a
          /\ core = "STX" =>
                KeepsRegisters /\ e.ppu = cpu.ppu /\ ram(e, addr) = cpu.regs.x
          /\ core = "STY" =>
                KeepsRegisters /\ e.ppu = cpu.ppu /\ ram(e, addr) = cpu.regs.y
          /\ core = "LDA" => e.mem = cpu.mem /\ e.regs.a = ram(cpu, addr)
          /\ core = "LDX" => e.mem = cpu.mem /\ e.regs.x = ram(cpu, addr)
          /\ core = "LDY" => e.mem = cpu.mem /\ e.regs.y = ram(cpu, addr)

----------------------------------------------------------------------------
(* Shifts and rotates of the accumulator *)

\* C30: ASL A, LSR A, ROL A and ROR A (0x0A, 0x4A, 0x2A, 0x6A) run their
\* core on the value of A and end, after 2 cycles, with the byte the core
\* returns in A and the flags the core leaves, memory and PPU untouched.
C30_AccumulatorShiftsWriteA ==
    \A opcode \in {10, 74, 42, 106} :
        LET d == table_decode(cpu, opcode)
            e == RunToEnd(cpu, 8)
        IN (main_pc = "running" /\ StartsOpcode(cpu, opcode)) =>
              /\ e.panicked = "none"
              /\ e.regs.a = fn_core_ret(d, cpu.regs.a)
              /\ e.regs.p = fn_core(d, cpu.regs.a).regs.p
              /\ e.mem = cpu.mem
              /\ e.ppu = cpu.ppu
              /\ StepsToEnd(cpu, 8) = 2

----------------------------------------------------------------------------
(* The bus on its own: MemCon::write and MemCon::read applied to the       *)
(* machine as it stands after power-on, with addresses from every region   *)
(* of the memory map.                                                      *)

\* 0x0000, 0x07FF, 0x0800, 0x1000, 0x1FFF: RAM and its mirrors;
\* 0x2000-0x2003, 0x2008, 0x200A, 0x2010, 0x3FFF, 0x4014: PPU registers;
\* 0x6000; 0x8000, 0xC000, 0xFFFF: cartridge
BusAddrs ==
    {0, 2047, 2048, 4096, 8191,
     8192, 8193, 8194, 8195, 8200, 8202, 8208, 16383, 16404,
     24576, 32768, 49152, 65535}

BusData == {90, 128}

BusInit ==
    /\ cpu = power_on(new(1, FALSE, FALSE))
    /\ main_pc = "running"
    /\ bus_ops = 0
    /\ core_val = 0

BusWrite ==
    /\ Running
    /\ bus_ops < MaxBusOps
    /\ \E a \in BusAddrs, d \in BusData : cpu' = mem_write(cpu, a, d)
    /\ bus_ops' = bus_ops + 1
    /\ UNCHANGED <<main_pc, core_val>>

BusRead ==
    /\ Running
    /\ bus_ops < MaxBusOps
    /\ \E a \in BusAddrs : cpu' = mem_read_effect(cpu, a)
    /\ bus_ops' = bus_ops + 1
    /\ UNCHANGED <<main_pc, core_val>>

BusNext ==
    \/ BusWrite
    \/ BusRead

BusSpec == BusInit /\ [][BusNext]_vars

\* C23: a write of d at an address a of 0x0000-0x1FFF makes the four
\* addresses (a & 0x07FF) + k * 0x0800 read back d and changes no byte
\* outside 0x0000-0x1FFF.
C23_RamWriteReachesFourMirrors ==
    [][\A a \in BusAddrs, d \in BusData :
          (a <= 8191 /\ cpu.panicked = "none" /\ cpu' = mem_write(cpu, a, d)) =>
              /\ \A k \in 0 .. 3 : mem_read(cpu', (a % 2048) + k * 2048) = d
              /\ \A b \in DOMAIN cpu'.mem :
                    b > 8191 => ram(cpu', b) = ram(cpu, b)]_vars

\* The PPU register window without the OAM-DMA register
InRegisterWindow(addr) == addr >= 8192 /\ addr <= 16383

\* C24: a write or a read at an address a of 0x2000-0x3FFF is dispatched to
\* the PPU register of index a & 0x0007 and never fails.
C24_PpuRegisterByLowThreeBits ==
    [][\A a \in BusAddrs :
          (InRegisterWindow(a) /\ cpu.panicked = "none") =>
              /\ \A d \in BusData :
                    cpu' = mem_write(cpu, a, d) =>
                        /\ cpu'.panicked = "none"
                        /\ cpu'.ppu = databus_write(cpu.ppu, from_usize(a % 8), d)
              /\ cpu' = mem_read_effect(cpu, a) =>
                    /\ cpu'.panicked = "none"
                    /\ mem_read(cpu, a) =
                          databus_read_ret(cpu.ppu, from_usize(a % 8))
                    /\ cpu'.ppu = databus_read(cpu.ppu, from_usize(a % 8))]_vars

\* C25: a write at an address of 0x8000-0xFFFF ends in the write-to-read-only
\* error, and after any bus operation the bytes of 0x8000-0xFFFF are those
\* of the cartridge image.
C25_PrgIsReadOnly ==
    [][/\ \A a \in BusAddrs, d \in BusData :
             (a >= 32768 /\ cpu.panicked = "none"
              /\ cpu' = mem_write(cpu, a, d)) =>
                 cpu'.panicked = "write_to_read_only"
       /\ \A b \in DOMAIN cpu'.mem :
             b >= 32768 => ram(cpu', b) = Image(cpu'.rom, b)]_vars

\* C26: a read of the PPU status register (0x2002 or its mirror 0x200A)
\* returns the status value and leaves the vblank bit (bit 7) cleared, so
\* the next read of the register returns bit 7 = 0.
C26_StatusReadClearsVblank ==
    [][\A a \in {8194, 8202} :
          (cpu.panicked = "none" /\ cpu' = mem_read_effect(cpu, a)) =>
              /\ mem_read(cpu, a) = cpu.ppu.regs.status
              /\ BitAnd(cpu'.ppu.regs.status, 128) = 0
              /\ BitAnd(mem_read(cpu', a), 128) = 0]_vars

----------------------------------------------------------------------------
(* The operation cores on their own: a Cpu whose executer holds a core,    *)
(* with registers and flags of any kind, and one call of the core with an  *)
(* operand byte.                                                           *)

CoreNames ==
    {"ASL", "LSR", "ROL", "ROR", "ADC", "SBC", "BIT", "DEC", "INC",
     "DEY", "INY", "INX", "DEX"}

CoreRegs == {0, 1, 80, 127, 128, 255}

\* <<X, Y>>
CoreIndex == {<<0, 255>>, <<255, 0>>, <<127, 128>>}

CoreFlags == {36, 37, 44, 45, 102, 231}

CoreVals == 0 .. 255

CoreInit ==
    /\ \E core \in CoreNames, a \in CoreRegs, xy \in CoreIndex,
          p \in CoreFlags :
          cpu = [power_on(new(1, FALSE, FALSE)) EXCEPT
                    !.regs.a = a, !.regs.x = xy[1], !.regs.y = xy[2],
                    !.regs.p = p, !.state.executer.fn_core = core]
    /\ main_pc = "core_loaded"
    /\ bus_ops = 0
    /\ core_val = 0

CoreApply ==
    /\ main_pc = "core_loaded"
    /\ \E val \in CoreVals : core_val' = val /\ cpu' = fn_core(cpu, val)
    /\ main_pc' = "core_applied"
    /\ UNCHANGED bus_ops

CoreNext == CoreApply

CoreSpec == CoreInit /\ [][CoreNext]_vars

\* This step calls the core of the named group, with operand core_val'
Applies(cores) ==
    /\ main_pc = "core_loaded"
    /\ main_pc' = "core_applied"
    /\ cpu.state.executer.fn_core \in cores

\* Bit n of a byte
Bit(val, n) == (val \div (2 ^ n)) % 2

\* C31: ASL returns (v << 1) mod 256 with Carry = bit 7 of v, LSR returns
\* v >> 1 with Carry = bit 0 of v, ROL returns ((v << 1) | c) mod 256 with
\* Carry = bit 7 of v, ROR returns (v >> 1) | (c << 7) with Carry = bit 0
\* of v, c being the incoming Carry; Carry is cleared when the bit shifted
\* out is 0, and N and Z follow the returned value.
C31_ShiftsSetCarryFromShiftedOutBit ==
    [][Applies({"ASL", "LSR", "ROL", "ROR"}) =>
              LET v == core_val'
                  core == cpu.state.executer.fn_core
                  cin == Bit(cpu.regs.p, 0)
                  ret == fn_core_ret(cpu, v)
                  left == core \in {"ASL", "ROL"}
              IN /\ ret = CASE core = "ASL" -> (2 * v) % 256
                             [] core = "LSR" -> v \div 2
                             [] core = "ROL" -> ((2 * v) % 256) + cin
                             [] core = "ROR" -> (v \div 2) + 128 * cin
                 /\ Bit(cpu'.regs.p, 0) = IF left THEN Bit(v, 7) ELSE Bit(v, 0)
                 /\ Bit(cpu'.regs.p, 7) = Bit(ret, 7)
                 /\ Bit(cpu'.regs.p, 1) = IF ret = 0 THEN 1 ELSE 0]_vars

C33_BitTouchesOnlyNVZ ==
    [][Applies({"BIT"}) =>
              LET m == core_val'
              IN /\ Bit(cpu'.regs.p, 7) = Bit(m, 7)
                 /\ Bit(cpu'.regs.p, 6) = Bit(m, 6)
                 /\ Bit(cpu'.regs.p, 1) =
                        IF BitAnd(cpu.regs.a, m) = 0 THEN 1 ELSE 0
                 /\ \A n \in {0, 2, 3, 4, 5} :
                        Bit(cpu'.regs.p, n) = Bit(cpu.regs.p, n)
                 /\ cpu'.regs.a = cpu.regs.a
                 /\ cpu'.regs.x = cpu.regs.x
                 /\ cpu'.regs.y = cpu.regs.y
                 /\ cpu'.regs.s = cpu.regs.s]_vars

\* C34: INX and DEX change only X, INY and DEY change only Y, by one modulo
\* 256; INC and DEC change no register and return the operand plus or
\* minus one modulo 256; in each case N and Z follow the new value and
\* every other register and flag is as before.
C34_IncDecTouchOnlyTheirTarget ==
    [][Applies({"INX", "DEX", "INY", "DEY", "INC", "DEC"}) =>
              LET core == cpu.state.executer.fn_core
                  up == core \in {"INX", "INY", "INC"}
                  before == CASE core \in {"INX", "DEX"} -> cpu.regs.x
                           [] core \in {"INY", "DEY"} -> cpu.regs.y
                           [] OTHER -> core_val'
                  after == IF up THEN (before + 1) % 256 ELSE (before + 255) % 256
              IN /\ cpu'.regs.x =
                        IF core \in {"INX", "DEX"} THEN after ELSE cpu.regs.x
                 /\ cpu'.regs.y =
                        IF core \in {"INY", "DEY"} THEN after ELSE cpu.regs.y
                 /\ core \in {"INC", "DEC"} =>
                        fn_core_ret(cpu, core_val') = after
                 /\ cpu'.regs.a = cpu.regs.a
                 /\ cpu'.regs.s = cpu.regs.s
                 /\ cpu'.regs.pc = cpu.regs.pc
                 /\ cpu'.mem = cpu.mem
                 /\ Bit(cpu'.regs.p, 7) = Bit(after, 7)
                 /\ Bit(cpu'.regs.p, 1) = IF after = 0 THEN 1 ELSE 0
                 /\ \A n \in {0, 2, 3, 4, 5, 6} :
                        Bit(cpu'.regs.p, n) = Bit(cpu.regs.p, n)]_vars

----------------------------------------------------------------------------
(* (Indirect,X) addressing *)

\* C35: LDA (zp,X) and STA (zp,X) (0xA1, 0x81) take six cycles and access
\* the address whose low byte is M[(zp + X) mod 256] and whose high byte is
\* M[(zp + X + 1) mod 256]: the load ends with that byte in A, the store
\* with A at that address.
C35_IndexedIndirectXAddress ==
    \A opcode \in {161, 129} :
        LET zx == wrapping_add8(ram(cpu, wrapping_add16(cpu.regs.pc, 1)),
                                cpu.regs.x)
            addr == make_addr(ram(cpu, wrapping_add8(zx, 1)), ram(cpu, zx))
            e == RunToEnd(cpu, 8)
        IN (main_pc = "running" /\ StartsOpcode(cpu, opcode)) =>
              /\ e.panicked = "none"
              /\ StepsToEnd(cpu, 8) = 6
              /\ opcode = 161 => e.regs.a = ram(cpu, addr)
              /\ opcode = 129 => ram(e, addr) = cpu.regs.a

----------------------------------------------------------------------------
(* The bit-pattern decoder applied to one opcode byte: the specification   *)
(* under which the decoder is compared with INSTRUCTION_SET.               *)

\* Opcode bytes other than BRK, which fetch handles before decoding
Opcodes == 1 .. 255

DecodeInit ==
    /\ cpu = power_on(new(1, FALSE, FALSE))
    /\ main_pc = "opcode_fetched"
    /\ bus_ops = 0
    /\ core_val \in Opcodes

\* decoder::decode(opcode): the executer it returns, or its panic
DecodeApply ==
    /\ main_pc = "opcode_fetched"
    /\ cpu' = IF decoder_decode(core_val) = InvalidOp
              THEN panic(cpu, "invalid_opcode")
              ELSE [cpu EXCEPT !.state.executer =
                       make_executer(decoder_decode(core_val)[1],
                                     decoder_decode(core_val)[2])]
    /\ main_pc' = "opcode_decoded"
    /\ UNCHANGED <<bus_ops, core_val>>

DecodeNext == DecodeApply

DecodeSpec == DecodeInit /\ [][DecodeNext]_vars

\* C36: for every opcode byte 0x01..0xFF the bit-pattern decoder returns
\* the template and the core of INSTRUCTION_SET[opcode] when the table has
\* an entry, and fails as an invalid opcode exactly when it has none.
C36_DecoderAgreesWithTable ==
    main_pc = "opcode_decoded" =>
        IF core_val \in DOMAIN INSTRUCTION_SET
        THEN /\ cpu.panicked = "none"
             /\ cpu.state.executer.fn_exec = INSTRUCTION_SET[core_val][1]
             /\ cpu.state.executer.fn_core = INSTRUCTION_SET[core_val][2]
        ELSE cpu.panicked = "invalid_opcode"

----------------------------------------------------------------------------
(* Sub-cycle counter and the poll condition of Cpu::step (claims of the    *)
(* interrupt poll, checked under Spec).                                    *)

\* The operands of the poll condition, as step() sees them after fn_step
\* has run: when the first two conjuncts hold the subtraction is evaluated
PollOperandsInRange(mid) ==
    ( /\ mid.panicked = "none"
      /\ mid.int_polling_enabled
      /\ mid.int_requested.kind = "None" )
    => mid.state.counter <= mid.state.executer.last_cycle

\* C37: whenever step() evaluates the poll condition with polling enabled
\* and an empty pending slot, the sub-cycle counter is not greater than the
\* final-cycle count, so last_cycle - counter never underflows (also on the
\* extra cycle of a page-crossing indexed access and of a taken branch), and
\* the counter handed to the step function is within 1..7.
C37_PollSubtractionNeverUnderflows ==
    [][IsStep =>
          /\ PollOperandsInRange(fn_step(step_count(cpu)))
          /\ cpu'.panicked # "subtract_overflow"
          /\ step_count(cpu).state.counter \in 1 .. 7
      ]_vars

\* C37 witness: cycle 4 of a page-crossing Absolute,X load has run without
\* finishing the instruction, so the poll condition was evaluated with the
\* counter equal to the final-cycle count and the extra cycle comes next
C37_Witness ==
    /\ cpu.panicked = "none"
    /\ cpu.fn_step = "exec_step"
    /\ cpu.state.executer.fn_exec = "exec_indexed_absolute_x"
    /\ cpu.state.counter = 4
    /\ cpu.state.executer.last_cycle = 4
    /\ cpu.state.op_1 + cpu.regs.x > 255
    /\ cpu.int_polling_enabled
    /\ cpu.int_requested.kind = "None"

\* C38: after power_on, under every interleaving of the pin calls with
\* step(), the interrupt sequence only runs with a kind among Reset, Nmi,
\* Irq and Brk: neither the unreachable!() at the end of resolve_int_type
\* nor the "invalid IntType" panic of the vector selection is reached.
C38_InterruptKindAlwaysValid ==
    main_pc = "running" =>
        /\ cpu.panicked \notin {"unreachable", "invalid_int_type"}
        /\ cpu.fn_step = "int_step" =>
               cpu.state.int \in {"Reset", "Nmi", "Irq", "Brk"}

\* C38 witness: an Irq recorded by a poll is in its interrupt sequence, past
\* the cycle that looks at the latches, after stop_irq has released the line
C38_Witness ==
    /\ main_pc = "running"
    /\ cpu.panicked = "none"
    /\ cpu.fn_step = "int_step"
    /\ cpu.state.counter = 6
    /\ cpu.state.int = "Irq"
    /\ cpu.clock_counter > 7

\* What follows a pin call that arrived with Irq recorded: e is the Cpu at
\* the end of the running instruction, c the Cpu right after the pin call
IrqSequenceRuns(e, c) ==
    e.panicked = "none" =>
        /\ \/ e.fn_step = "int_step" /\ e.state.int = "Irq"
           \/ e.fn_step = "fetch_step" /\ e.int_requested.kind = "Irq"
        /\ e.fn_step = "int_step" =>
              /\ step(e).state.int = "Irq"
              /\ c.nmi_occurred => step(e).nmi_occurred
              /\ c.irq_occurred => step(e).irq_occurred

\* C39: once a poll has recorded Irq in the pending slot, a stop_irq before
\* the instruction ends does not cancel it: the pending kind stays Irq and
\* the interrupt sequence for Irq runs at the end of the instruction; a
\* trigger_irq or trigger_nmi arriving after the poll does not change the
\* recorded kind either, and its latch is left for a later poll.
C39_RecordedIrqIsFinal ==
    [][ ( /\ main_pc = "running" /\ cpu.panicked = "none"
          /\ cpu.fn_step = "exec_step"
          /\ cpu.int_requested.kind = "Irq"
          /\ cpu' \in {stop_irq(cpu), trigger_irq(cpu), trigger_nmi(cpu)} )
        => /\ cpu'.int_requested = cpu.int_requested
           /\ IrqSequenceRuns(RunToEnd(cpu', 8), cpu')
      ]_vars

----------------------------------------------------------------------------
(* The PPU around the end of its warm-up: Ppu::step and the register       *)
(* writes and reads, by the state functions of ppu_state.rs and by         *)
(* DataBus::write and DataBus::read.                                       *)
(* Only the Ppu of the Cpu record takes part; it starts as power_on leaves *)
(* it, after a number of steps without register writes.                    *)

\* Steps already taken: none, or two short of WARM_UP_TIME
PpuStarts == {0, WARM_UP_TIME - 2}

PpuBytes == {85, 170}

PpuRegNames == {from_usize(n) : n \in 0 .. 7}

PpuInit ==
    /\ \E n \in PpuStarts :
          cpu = [power_on(new(1, FALSE, FALSE)) EXCEPT !.ppu.clock_counter = n]
    /\ main_pc = "ppu_running"
    /\ bus_ops = 0
    /\ core_val = 0

\* Ppu::step
PpuStep ==
    /\ main_pc = "ppu_running"
    /\ bus_ops < MaxPpuOps
    /\ cpu' = [cpu EXCEPT !.ppu = ppu_step(@)]
    /\ bus_ops' = bus_ops + 1
    /\ UNCHANGED <<main_pc, core_val>>

\* Ppu::write through the state function
PpuStateWrite ==
    /\ main_pc = "ppu_running"
    /\ bus_ops < MaxPpuOps
    /\ \E r \in PpuRegNames, d \in PpuBytes :
          cpu' = [cpu EXCEPT !.ppu = ppu_write(@, r, d)]
    /\ bus_ops' = bus_ops + 1
    /\ UNCHANGED <<main_pc, core_val>>

\* DataBus::write
PpuBusWrite ==
    /\ main_pc = "ppu_running"
    /\ bus_ops < MaxPpuOps
    /\ \E r \in PpuRegNames, d \in PpuBytes :
          cpu' = [cpu EXCEPT !.ppu = databus_write(@, r, d)]
    /\ bus_ops' = bus_ops + 1
    /\ UNCHANGED <<main_pc, core_val>>

\* Ppu::read through the state function
PpuStateRead ==
    /\ main_pc = "ppu_running"
    /\ bus_ops < MaxPpuOps
    /\ \E r \in PpuRegNames : cpu' = [cpu EXCEPT !.ppu = ppu_read(@, r)]
    /\ bus_ops' = bus_ops + 1
    /\ UNCHANGED <<main_pc, core_val>>

\* DataBus::read
PpuBusRead ==
    /\ main_pc = "ppu_running"
    /\ bus_ops < MaxPpuOps
    /\ \E r \in PpuRegNames : cpu' = [cpu EXCEPT !.ppu = databus_read(@, r)]
    /\ bus_ops' = bus_ops + 1
    /\ UNCHANGED <<main_pc, core_val>>

PpuNext ==
    \/ PpuStep
    \/ PpuStateWrite
    \/ PpuBusWrite
    \/ PpuStateRead
    \/ PpuBusRead

PpuSpec == PpuInit /\ [][PpuNext]_vars

\* The registers that ignore writes during warm-up, with their fields
WarmUpRegs ==
    {<<"Ctrl", "ctrl">>, <<"Mask", "mask">>, <<"Scroll", "scroll">>,
     <<"PpuAddr", "addr">>}

\* The transition is a write of d to the register r, by either path
IsPpuWrite(r, d) ==
    \/ cpu'.ppu = ppu_write(cpu.ppu, r, d)
    \/ cpu'.ppu = databus_write(cpu.ppu, r, d)

\* C40: the PPU idles as long as its clock counter has not exceeded
\* WARM_UP_TIME; while it idles a write to PPUCTRL, PPUMASK, PPUSCROLL or
\* PPUADDR leaves every register as it was and only updates the latch; once
\* ready it never returns to idling, and a write to one of these registers
\* stores the byte.
C40_WarmUpIgnoresWrites ==
    [][ /\ cpu'.ppu.clock_counter <= WARM_UP_TIME => cpu'.ppu.state = "IDLING"
        /\ ( cpu'.ppu.clock_counter = cpu.ppu.clock_counter + 1
             /\ cpu'.ppu.clock_counter > WARM_UP_TIME )
              => cpu'.ppu.state = "READY"
        /\ cpu.ppu.state = "READY" => cpu'.ppu.state = "READY"
        /\ \A w \in WarmUpRegs, d \in PpuBytes :
              IsPpuWrite(w[1], d) =>
                 /\ cpu'.ppu.regs.latch = d
                 /\ cpu'.ppu.regs[w[2]] =
                       IF cpu.ppu.state = "IDLING" THEN cpu.ppu.regs[w[2]]
                       ELSE d
                 /\ cpu.ppu.state = "IDLING" =>
                       cpu'.ppu.regs = [cpu.ppu.regs EXCEPT !.latch = d]
      ]_vars

\* C40 witness: the warm-up ended with the step that took the counter past
\* WARM_UP_TIME, and PPUCTRL holds a byte written after it
C40_Witness ==
    /\ main_pc = "ppu_running"
    /\ cpu.ppu.state = "READY"
    /\ cpu.ppu.clock_counter = WARM_UP_TIME + 1
    /\ cpu.ppu.regs.ctrl = 85
    /\ cpu.ppu.regs.latch = 85

----------------------------------------------------------------------------
(* One instruction of every opcode of the table, from its fetch to         *)
(* exec_finished.  The instruction and its operand bytes lie in RAM, where *)
(* a program has stored them, PC points at the opcode and the CPU is in    *)
(* FETCH as after the instruction before.  No interrupt line is asserted.  *)

\* Addresses of the opcode: mid-page, and three bytes before a page end
ExecStarts == {512, 765}

\* First operand byte: a small offset or address, and 0xFF
ExecOperands == {16, 255}

\* Index registers
ExecIndex == {0, 255}

\* Status register: the branch flags all clear, or all set
ExecFlags == {36, 231}

ExecInit ==
    /\ \E opcode \in DOMAIN INSTRUCTION_SET, start \in ExecStarts,
          b1 \in ExecOperands, xy \in ExecIndex, p \in ExecFlags,
          checks \in BOOLEAN :
          /\ cpu = [mem_write(mem_write(mem_write(
                         power_on(new(1, FALSE, checks)),
                         start, opcode), start + 1, b1), start + 2, 2)
                    EXCEPT !.regs.pc = start, !.regs.x = xy, !.regs.y = xy,
                           !.regs.p = p]
          /\ core_val = opcode
    /\ main_pc = "executing"
    /\ bus_ops = 0

\* Cpu::step, until the instruction has finished
ExecStep ==
    /\ main_pc = "executing"
    /\ cpu.panicked = "none"
    /\ cpu.clock_counter < MaxExecSteps
    /\ cpu' = step(cpu)
    /\ main_pc' = IF cpu'.panicked = "none" /\ cpu'.state.counter = 0
                  THEN "finished" ELSE "executing"
    /\ UNCHANGED <<bus_ops, core_val>>

ExecSpec == ExecInit /\ [][ExecStep]_vars

\* Templates that take an extra cycle on a page cross or a taken branch
TemplatesWithExtras ==
    {"exec_indexed_absolute_x", "exec_indexed_absolute_y",
     "exec_indirect_indexed_y", "exec_relative"}

====
